---- MODULE Spec2Model ----
(***************************************************************************)
(* Model of the recipe extraction-and-sync pipeline of parsely:            *)
(*   - RecipeSchemaProcessor (schema extraction, scoring, transformation)  *)
(*   - retry / NotionRecipeManager (store sync client)                     *)
(*   - executeChop (batch orchestrator)                                    *)
(* JavaScript values are modelled as tagged records [t, v] so that the     *)
(* scalar-or-array shape of every Schema.org field stays observable.       *)
(***************************************************************************)
EXTENDS Naturals, Integers, Sequences, FiniteSets, TLC

(***************************************************************************)
(* Bounds of the model.                                                    *)
(***************************************************************************)
\* longest URL list given to one run of executeChop
MaxUrls == 2
\* largest --batch-size option of a run
MaxBatchSize == 1
\* how many calls to a collaborator fail in one behaviour of executeChop
MaxFaults == 2
\* the URLs of a run and the calls that fail in it, taken together
MaxLoad == 3
\* most JSON-LD script nodes in a document given to extractFromHtml alone
MaxBlocks == 2
\* how many blocks the store gives in one response of blocks.children.list:
\* the pages of the model are far shorter than page_size, and the listing is
\* paginated all the same
StorePageLen == 1
\* largest value given to the scan command's --retries option
MaxRetriesOption == 5
\* most characters of an input file of URLs
MaxFileLen == 4
\* how many entries the history of the batch loop keeps: more than a run
\* that ends can log
MaxLog == 6
\* most characters of a time string given to parseTimeToMinutes alone, the
\* named strings apart
MaxTimeLen == 3

(***************************************************************************)
(* JavaScript values.                                                      *)
(***************************************************************************)
Undefined == [t |-> "undefined"]
Null == [t |-> "null"]
Str(s) == [t |-> "string", v |-> s]
Arr(q) == [t |-> "array", v |-> q]
Obj(f) == [t |-> "object", v |-> f]

IsArray(x) == x.t = "array"
IsString(x) == x.t = "string"
StrEq(x, s) == x.t = "string" /\ x.v = s

\* JavaScript truthiness: undefined, null and "" are falsy; arrays and objects
\* (also empty ones) are truthy.
Truthy(x) ==
  CASE x.t = "undefined" -> FALSE
    [] x.t = "null" -> FALSE
    [] x.t = "string" -> x.v # ""
    [] OTHER -> TRUE

\* a || b
OrElse(a, b) == IF Truthy(a) THEN a ELSE b

\* "k" in o, o[k] for an object given as a function from keys to values
Has(o, k) == k \in DOMAIN o
Get(o, k) == IF k \in DOMAIN o THEN o[k] ELSE Undefined

\* Array.prototype.includes("Recipe") on an array of values
ArrIncludes(q, s) == \E n \in 1..Len(q) : StrEq(q[n], s)

Min(a, b) == IF a < b THEN a ELSE b

(***************************************************************************)
(* RecipeSchemaProcessor.                                                  *)
(***************************************************************************)
\* the predicate of graphData.find(...) in extractRecipeData
IsRecipeItem(item) ==
  /\ item.t = "object"
  /\ Has(item.v, "@type")
  /\ \/ StrEq(item.v["@type"], "Recipe")
     \/ (IsArray(item.v["@type"]) /\ ArrIncludes(item.v["@type"].v, "Recipe"))

\* extractRecipeData that does not look into @graph
ExtractRecipeDataNoGraph(schema) == schema

\* extractRecipeData: the first Recipe entry of a top-level @graph array, else
\* the schema itself
ExtractRecipeData(schema) ==
  IF Has(schema, "@graph") /\ IsArray(schema["@graph"])
     /\ \E n \in 1..Len(schema["@graph"].v) : IsRecipeItem(schema["@graph"].v[n])
  THEN LET g == schema["@graph"].v
           first == CHOOSE n \in 1..Len(g) :
                      /\ IsRecipeItem(g[n])
                      /\ \A m \in 1..(n - 1) : ~IsRecipeItem(g[m])
       IN g[first].v
  ELSE schema

\* isSchemaRecipe, on a parsed JSON value
IsSchemaRecipe(data) ==
  IF data.t # "object" THEN FALSE
  ELSE IF ~(Has(data.v, "@context")
            /\ (StrEq(data.v["@context"], "https://schema.org")
                \/ StrEq(data.v["@context"], "http://schema.org")))
  THEN FALSE
  ELSE LET recipeData == ExtractRecipeData(data.v)
           isRecipe ==
             /\ Has(recipeData, "@type")
             /\ IF IsString(recipeData["@type"])
                THEN recipeData["@type"].v = "Recipe"
                ELSE IsArray(recipeData["@type"])
                     /\ ArrIncludes(recipeData["@type"].v, "Recipe")
           hasRequiredFields ==
             /\ Has(recipeData, "name")
             /\ (Has(recipeData, "recipeIngredient")
                 \/ Has(recipeData, "recipeInstructions"))
       IN isRecipe /\ hasRequiredFields

\* scoreRecipeSchema
ScoreRecipeSchema(schema) ==
  LET recipeData == ExtractRecipeData(schema)
      pts(k, n) == IF Truthy(Get(recipeData, k)) THEN n ELSE 0
      len(k) == IF IsArray(Get(recipeData, k))
                THEN Min(Len(Get(recipeData, k).v), 5) ELSE 0
  IN pts("name", 10) + pts("recipeIngredient", 10) + pts("recipeInstructions", 10)
     + pts("recipeCuisine", 2) + pts("prepTime", 2) + pts("cookTime", 2)
     + pts("recipeYield", 2) + pts("description", 1) + pts("author", 1)
     + len("recipeIngredient") + len("recipeInstructions")

\* extraction that stops at the first script node JSON.parse rejects
QualifyingBlocksUntilMalformed(html) ==
  { n \in 1..Len(html) :
      /\ \A m \in 1..n : html[m].parses
      /\ IsSchemaRecipe(html[n].data) }

\* An HTML document is the sequence of its JSON-LD script nodes, each
\* [parses, data]: whether JSON.parse accepts its text, and the parsed value.
\* The positions of the qualifying blocks, in document order.
QualifyingBlocks(html) ==
  { n \in 1..Len(html) : html[n].parses /\ IsSchemaRecipe(html[n].data) }

\* the block that recipeSchemas.sort((a, b) => b.score - a.score) puts first
\* (the sort is stable: among equal scores the earlier block stays first)
TopBlock(html) ==
  CHOOSE n \in QualifyingBlocks(html) :
    \A m \in QualifyingBlocks(html) :
      LET sn == ScoreRecipeSchema(html[n].data.v)
          sm == ScoreRecipeSchema(html[m].data.v)
      IN sn > sm \/ (sn = sm /\ n <= m)

NoSchemaFound ==
  [name |-> "SchemaValidationError", type |-> "NO_SCHEMA_FOUND",
   message |-> "No valid recipe schema found"]

InvalidSchema ==
  [name |-> "SchemaValidationError", type |-> "INVALID_SCHEMA",
   message |-> "Invalid Schema.org/Recipe data"]

\* extractFromHtml that returns an empty list when no block qualifies
ExtractFromHtmlEmptyList(html) ==
  IF QualifyingBlocks(html) = {}
  THEN [ok |-> TRUE, schemas |-> << >>]
  ELSE [ok |-> TRUE, schemas |-> << html[TopBlock(html)].data >>]

\* extractFromHtml: [ok |-> TRUE, schemas] or [ok |-> FALSE, error]
ExtractFromHtml(html) ==
  IF QualifyingBlocks(html) = {}
  THEN [ok |-> FALSE, error |-> NoSchemaFound]
  ELSE [ok |-> TRUE, schemas |-> << html[TopBlock(html)].data >>]

\* extractText
ExtractText(value) ==
  IF ~Truthy(value) THEN Null
  ELSE IF IsArray(value)
       THEN (IF Len(value.v) > 0 THEN value.v[1] ELSE Undefined)
       ELSE value

\* extractArray
ExtractArray(value) ==
  IF ~Truthy(value) THEN Arr(<< >>)
  ELSE IF IsArray(value) THEN value ELSE Arr(<< value >>)

\* String(x) for the values that occur as instructions
ToStr(x) ==
  CASE x.t = "string" -> x
    [] x.t = "object" -> Str("[object Object]")
    [] x.t = "undefined" -> Str("undefined")
    [] x.t = "null" -> Str("null")
    [] OTHER -> Str("[array]")

\* extractInstructions without the array case
ExtractInstructionsAsScalar(value) ==
  IF ~Truthy(value) THEN Arr(<< >>)
  ELSE Arr(<< Obj([text |-> ToStr(value)]) >>)

\* extractInstructions
ExtractInstructions(value) ==
  IF ~Truthy(value) THEN Arr(<< >>)
  ELSE IF IsArray(value)
  THEN Arr([n \in 1..Len(value.v) |->
         LET instruction == value.v[n] IN
         IF IsString(instruction) THEN Obj([text |-> instruction])
         ELSE IF instruction.t = "object" /\ Has(instruction.v, "text")
              THEN Obj([text |-> ToStr(instruction.v["text"])])
              ELSE Obj([text |-> ToStr(instruction)])])
  ELSE Arr(<< Obj([text |-> ToStr(value)]) >>)

\* value.split(/,\s*/) on the keyword strings of the model
SplitKeywords(s) ==
  CASE s = "soup, winter" -> << Str("soup"), Str("winter") >>
    [] s = "soup,winter" -> << Str("soup"), Str("winter") >>
    [] OTHER -> << Str(s) >>

\* extractKeywords
ExtractKeywords(value) ==
  IF ~Truthy(value) THEN Arr(<< >>)
  ELSE IF IsString(value) THEN Arr(SplitKeywords(value.v))
  ELSE IF IsArray(value) THEN value ELSE Arr(<< >>)

\* the whole array: slice(0)
Slice0(q) == q

\* the tail of an array: slice(1)
Slice1(q) == IF Len(q) = 0 THEN << >> ELSE Tail(q)

\* transform, for a schema that validate() accepts: the canonical recipe, an
\* object given as a function from its keys to values
TransformRecipe(schema) ==
  LET recipeData == ExtractRecipeData(schema.v)
      category == ExtractText(Get(recipeData, "recipeCategory"))
      keywords0 == ExtractKeywords(OrElse(Get(recipeData, "keywords"), Arr(<< >>)))
      keywords ==
        IF Truthy(Get(recipeData, "recipeCategory"))
           /\ IsArray(Get(recipeData, "recipeCategory"))
        THEN Arr(keywords0.v \o Slice1(recipeData["recipeCategory"].v))
        ELSE keywords0
      url == IF IsString(Get(recipeData, "url")) THEN recipeData["url"] ELSE Str("")
      type == Get(recipeData, "@type")
  IN [name |-> OrElse(ExtractText(Get(recipeData, "name")), Str("")),
      ingredients |-> ExtractArray(Get(recipeData, "recipeIngredient")),
      instructions |-> ExtractInstructions(Get(recipeData, "recipeInstructions")),
      cuisineType |-> ExtractText(Get(recipeData, "recipeCuisine")),
      prepTime |-> ExtractText(Get(recipeData, "prepTime")),
      cookTime |-> ExtractText(Get(recipeData, "cookTime")),
      totalTime |-> ExtractText(Get(recipeData, "totalTime")),
      recipeYield |-> ExtractText(Get(recipeData, "recipeYield")),
      notes |-> Null,
      description |-> ExtractText(Get(recipeData, "description")),
      category |-> category,
      keywords |-> keywords,
      url |-> url,
      source |-> Obj([url |-> url,
                      schemaType |-> IF IsArray(type) THEN Str("Recipe") ELSE type,
                      rawSchema |-> schema])]

\* the array that transform pushes the overflow categories onto is the
\* candidate's own keywords array: recipeData.keywords || [] is that array when
\* it is one, and extractKeywords returns an array argument as it is
KeywordsShared(schema) ==
  LET recipeData == ExtractRecipeData(schema.v) IN
  /\ IsArray(Get(recipeData, "keywords"))
  /\ IsArray(Get(recipeData, "recipeCategory"))

\* the position in @graph of the entry extractRecipeData returns, 0 when it
\* returns the schema itself
GraphRecipeIndex(schema) ==
  IF Has(schema, "@graph") /\ IsArray(schema["@graph"])
     /\ \E n \in 1..Len(schema["@graph"].v) : IsRecipeItem(schema["@graph"].v[n])
  THEN CHOOSE n \in 1..Len(schema["@graph"].v) :
         /\ IsRecipeItem(schema["@graph"].v[n])
         /\ \A m \in 1..(n - 1) : ~IsRecipeItem(schema["@graph"].v[m])
  ELSE 0

\* the candidate after transform(schema) has returned: keywords.push(...) has
\* grown the candidate's keywords array when that is the array pushed onto
TransformMutated(schema) ==
  IF ~(IsSchemaRecipe(schema) /\ KeywordsShared(schema)) THEN schema
  ELSE LET recipeData == ExtractRecipeData(schema.v)
           pushed == [recipeData EXCEPT
                        !["keywords"] = Arr(@.v \o Slice1(recipeData["recipeCategory"].v))]
           n == GraphRecipeIndex(schema.v)
       IN IF n = 0 THEN Obj(pushed)
          ELSE Obj([schema.v EXCEPT
                      !["@graph"] = Arr([@.v EXCEPT ![n] = Obj(pushed)])])

\* transform: [ok |-> TRUE, recipe] or [ok |-> FALSE, error]
Transform(schema) ==
  IF ~IsSchemaRecipe(schema)
  THEN [ok |-> FALSE, error |-> InvalidSchema]
  ELSE [ok |-> TRUE, recipe |-> TransformRecipe(schema)]

(***************************************************************************)
(* Errors thrown by the collaborators.  A Notion APIResponseError carries  *)
(* code and status; a plain Error carries only its message.               *)
(***************************************************************************)
ConflictError ==
  [code |-> "conflict_error", status |-> "409", message |-> "Conflict occurred"]

ValidationError ==
  [code |-> "validation_error", status |-> "400", message |-> "Invalid request"]

NetworkError == [message |-> "socket hang up"]

PromptError == [message |-> "Prompt was closed"]

FetchError == [message |-> "Navigation timeout"]

\* what a store call can throw
StoreErrors == { ConflictError, ValidationError, NetworkError }

NoError == [none |-> TRUE]

\* isNotionAPIResponseError
IsNotionAPIResponseError(error) ==
  "code" \in DOMAIN error /\ "status" \in DOMAIN error

\* new Error(prefix + error.message)
WrapError(prefix, error) == [message |-> prefix \o error.message]

(***************************************************************************)
(* retry(operation, retries = 3, delay = 1000).                            *)
(***************************************************************************)
RetryDefaultRetries == 3
RetryDefaultDelay == 1000

\* retry without its catch block: every error is rethrown at once
RetryCatchNever(error, retriesLeft, curDelay) == [again |-> FALSE, error |-> error]

\* retry that tries again after any API error, whatever its code
RetryCatchAnyApiError(error, retriesLeft, curDelay) ==
  IF retriesLeft > 0 /\ IsNotionAPIResponseError(error)
  THEN [again |-> TRUE, wait |-> curDelay,
        retries |-> retriesLeft - 1, delay |-> curDelay * 2]
  ELSE [again |-> FALSE, error |-> error]

\* retry that keeps the same delay between attempts
RetryCatchFixedDelay(error, retriesLeft, curDelay) ==
  IF /\ retriesLeft > 0
     /\ IsNotionAPIResponseError(error)
     /\ error.code = "conflict_error"
  THEN [again |-> TRUE, wait |-> curDelay,
        retries |-> retriesLeft - 1, delay |-> curDelay]
  ELSE [again |-> FALSE, error |-> error]

\* the catch block of retry, for the error of the attempt just made: either
\* wait `delay` and call retry(operation, retries - 1, delay * 2), or rethrow
RetryCatch(error, retriesLeft, curDelay) ==
  IF /\ retriesLeft > 0
     /\ IsNotionAPIResponseError(error)
     /\ error.code = "conflict_error"
  THEN [again |-> TRUE, wait |-> curDelay,
        retries |-> retriesLeft - 1, delay |-> curDelay * 2]
  ELSE [again |-> FALSE, error |-> error]

(***************************************************************************)
(* NotionRecipeManager: what is sent to the store.                         *)
(***************************************************************************)
\* the URL property written by createRecipe and updateRecipe
UrlProperty(recipe) ==
  LET src == Get(recipe, "source")
      srcUrl == IF src.t = "object" THEN Get(src.v, "url") ELSE Undefined
  IN OrElse(OrElse(Get(recipe, "url"), srcUrl), Str("")).v

\* the page properties of the model: Name and URL
PageProperties(recipe) ==
  [Name |-> Get(recipe, "name"), URL |-> UrlProperty(recipe)]

Heading(text) == [type |-> "heading_2", text |-> Str(text)]

\* the conditional "Notes" section and description paragraph of the template
OptionalBlocks(recipe) ==
  (IF Truthy(Get(recipe, "notes"))
   THEN << Heading("Notes"), [type |-> "paragraph", text |-> recipe["notes"]] >>
   ELSE << >>)
  \o (IF Truthy(Get(recipe, "description"))
      THEN << [type |-> "paragraph", text |-> recipe["description"]] >>
      ELSE << >>)

\* children of pages.create in createRecipe
CreateChildren(recipe) ==
  << Heading("Ingredients") >>
  \o [n \in 1..Len(recipe["ingredients"].v) |->
        [type |-> "bulleted_list_item", text |-> recipe["ingredients"].v[n]]]
  \o << Heading("Instructions") >>
  \o [n \in 1..Len(recipe["instructions"].v) |->
        [type |-> "numbered_list_item",
         text |-> recipe["instructions"].v[n].v["text"]]]
  \o OptionalBlocks(recipe)

\* children of blocks.children.append without the conditional blocks
UpdateChildrenWithoutOptional(recipe) ==
  << Heading("Ingredients") >>
  \o [n \in 1..Len(recipe["ingredients"].v) |->
        [type |-> "bulleted_list_item", text |-> recipe["ingredients"].v[n]]]
  \o << Heading("Instructions") >>
  \o [n \in 1..Len(recipe["instructions"].v) |->
        [type |-> "numbered_list_item",
         text |-> recipe["instructions"].v[n].v["text"]]]

\* children of blocks.children.append in updateRecipe
UpdateChildren(recipe) ==
  << Heading("Ingredients") >>
  \o [n \in 1..Len(recipe["ingredients"].v) |->
        [type |-> "bulleted_list_item", text |-> recipe["ingredients"].v[n]]]
  \o << Heading("Instructions") >>
  \o [n \in 1..Len(recipe["instructions"].v) |->
        [type |-> "numbered_list_item",
         text |-> recipe["instructions"].v[n].v["text"]]]
  \o OptionalBlocks(recipe)

\* the catch block of createRecipe
CreateCatch(error) ==
  IF IsNotionAPIResponseError(error)
  THEN WrapError("Failed to create recipe: ", error) ELSE error

\* the catch block of updateRecipe
UpdateCatch(error) ==
  IF IsNotionAPIResponseError(error)
  THEN WrapError("Failed to update recipe: ", error) ELSE error

\* findRecipeByUrl rethrows what it caught as it is
FindCatchUnwrapped(error) == error

\* the catch block of findRecipeByUrl
FindCatch(error) ==
  IF IsNotionAPIResponseError(error)
  THEN WrapError("Failed to search for recipe: ", error) ELSE error

(***************************************************************************)
(* The pages of the model: what fetchPageContent can return for a URL.     *)
(* Every one exposes a JSON-LD block whose @type is "Recipe", which is     *)
(* what fetchPageContent waits for before it returns.                      *)
(***************************************************************************)
Urls == { "https://a.example/soup", "https://b.example/soup" }

Script(data) == [parses |-> TRUE, data |-> data]

SoupFields ==
  ("@context" :> Str("https://schema.org")) @@ ("@type" :> Str("Recipe"))
  @@ [name |-> Str("Soup"), recipeIngredient |-> Arr(<< >>)]

\* a qualifying recipe whose schema declares `url` as its url
PageDeclaring(url) == << Script(Obj(SoupFields @@ [url |-> Str(url)])) >>

\* a qualifying recipe whose schema declares no url
PageNoUrl == << Script(Obj(SoupFields)) >>

\* a Recipe-typed block without the required fields: no candidate
PageTeaser ==
  << Script(Obj(("@context" :> Str("https://schema.org"))
                @@ ("@type" :> Str("Recipe")))) >>


(***************************************************************************)
(* State.                                                                  *)
(***************************************************************************)
VARIABLES
  urls,         \* the URL list of the run
  batchSizeOpt, \* options.batchSize (0 stands for 0, NaN and absent: falsy)
  validateOnly, \* options.validateOnly
  run,          \* "first" or "second": two successive runs on the same store
  main,         \* where executeChop is: "loop", "await", "delay", "report"
  i,            \* the loop variable of the batch loop (0-based)
  store,        \* the remote database: a set of pages
  results,      \* results.successful, results.failed, results.skipped
  pc,           \* per URL position: where its callback is suspended
  existingId,   \* per URL position: the result of findRecipeByUrl
  recipe,       \* per URL position: recipe / finalRecipe
  allBlocks,    \* per URL position: the blocks updateRecipe still has to delete
  retries,      \* per URL position: `retries` of the current retry frame
  delay,        \* per URL position: `delay` of the current retry frame
  rlog,         \* history: the latest retry call of each URL position
  thrown,       \* history: the error caught at the per-URL boundary
  ghost,        \* history: what each URL position has done so far
  loopLog,      \* history: the batches started and the inter-batch delays taken
  input,        \* RecipeSchemaProcessor called on its own: the argument
  output        \* RecipeSchemaProcessor called on its own: what the calls gave

\* the state of a call of RecipeSchemaProcessor on its own
processor == << input, output >>

\* the documents fetchPageContent(url) can return: any of the three pages,
\* or, when the run is on a site whose page is given in `input`, that page
PagesAt(url) ==
  IF input = Null THEN { PageDeclaring(url), PageNoUrl, PageTeaser }
  ELSE { << Script(input) >> }

vars ==
  << urls, batchSizeOpt, validateOnly, run, main, i, store, results, pc,
     existingId, recipe, allBlocks, retries, delay, rlog, thrown, ghost,
     loopLog, input, output >>

DefaultBatchSize == 5

\* const batchSize = options.batchSize || 5
batchSize == IF batchSizeOpt # 0 THEN batchSizeOpt ELSE DefaultBatchSize

Positions == 1..Len(urls)

\* urls.slice(i, i + batchSize - 1): the last URL of each batch is left out
BatchOffByOne(from, size) == { j \in 1..Len(urls) : from < j /\ j < from + size }

\* Array.prototype.slice's reading of an index: a negative one counts from
\* the end, and both kinds are clamped to the array
SliceIndex(k) ==
  IF k < 0 THEN (IF Len(urls) + k < 0 THEN 0 ELSE Len(urls) + k)
  ELSE Min(k, Len(urls))

\* urls.slice(i, i + batchSize), as list positions
Batch(from, size) ==
  { j \in Positions : SliceIndex(from) < j /\ j <= SliceIndex(from + size) }

\* i += batchSize.  An index at or below -urls.length starts an empty batch
\* and passes both tests of the loop whatever it is, so the indexes below
\* -urls.length are kept as -urls.length.
NextIndex == IF i + batchSize < 0 - Len(urls) THEN 0 - Len(urls) ELSE i + batchSize

\* history: the loop log keeps its first MaxLog entries
Logged(entry) == IF Len(loopLog) < MaxLog THEN Append(loopLog, entry) ELSE loopLog

EmptyResults == [successful |-> << >>, failed |-> << >>, skipped |-> << >>]

NoLog ==
  [op |-> "none", outcomes |-> << >>, waits |-> << >>, state |-> "none",
   error |-> NoError, retries0 |-> 0, delay0 |-> 0]

NoHistory ==
  [wrote |-> FALSE, fetched |-> FALSE, prompted |-> "none", errors |-> 0,
   firstError |-> [op |-> "none", code |-> "none"],
   updates |-> 0, reviewed |-> "none", calls |-> << >>]

SeqsUpTo(S, n) == UNION { [1..m -> S] : m \in 1..n }

StartRun ==
  /\ main = "loop"
  /\ i = 0
  /\ results = EmptyResults
  /\ pc = [j \in Positions |-> "pending"]
  /\ existingId = [j \in Positions |-> Null]
  /\ recipe = [j \in Positions |-> Null]
  /\ allBlocks = [j \in Positions |-> << >>]
  /\ retries = [j \in Positions |-> RetryDefaultRetries]
  /\ delay = [j \in Positions |-> RetryDefaultDelay]
  /\ rlog = [j \in Positions |-> NoLog]
  /\ thrown = [j \in Positions |-> NoError]
  /\ ghost = [j \in Positions |-> NoHistory]
  /\ loopLog = << >>

(***************************************************************************)
(* The store, as the Notion API shows it.                                  *)
(***************************************************************************)
PageById(id) == CHOOSE p \in store : p.id = id

\* databases.query with filter URL equals url
Matches(url) == { p \in store : p.props.URL = url }

\* response.results[0]?.id || null (the store decides the order of results)
FindResults(url) ==
  IF Matches(url) = {} THEN { Null } ELSE { Str(p.id) : p \in Matches(url) }

NewPageId == "page-" \o ToString(Cardinality(store) + 1)

Numbered(children, from) ==
  [n \in 1..Len(children) |-> [id |-> from + n] @@ children[n]]

\* the page pages.create makes; src records the URL the recipe was fetched from
NewPage(id, r, src) ==
  [id |-> id, props |-> PageProperties(r),
   blocks |-> Numbered(CreateChildren(r), 0), nb |-> Len(CreateChildren(r)),
   src |-> src]

ReplacePage(p) == (store \ { q \in store : q.id = p.id }) \cup { p }

\* pages.update
WithProperties(id, r) == ReplacePage([PageById(id) EXCEPT !.props = PageProperties(r)])

\* blocks.delete that leaves the block where it is
WithoutBlockKept(id, blockId) == store

\* blocks.delete
WithoutBlock(id, blockId) ==
  ReplacePage([PageById(id) EXCEPT
                 !.blocks = SelectSeq(@, LAMBDA b : b.id # blockId)])

\* blocks.children.append
WithAppended(id, r) ==
  LET p == PageById(id) IN
  ReplacePage([p EXCEPT !.blocks = @ \o Numbered(UpdateChildren(r), p.nb),
                        !.nb = @ + Len(UpdateChildren(r))])

(***************************************************************************)
(* executeChop: the per-URL callback.                                      *)
(***************************************************************************)
\* String(error) for an Error: its name and its message
ErrorMessageAsString(error) == "Error: " \o error.message

\* error instanceof Error ? error.message : String(error)
ErrorMessage(error) == error.message

CodeOf(error) == IF "code" \in DOMAIN error THEN error.code ELSE "error"

\* history: a call the callback made, whether it succeeded, and the block ids
\* it listed or deleted
Call(op, ok, arg) == [op |-> op, ok |-> ok, arg |-> arg]

\* history: one more call that succeeded
Called(h, op, arg) == [h EXCEPT !.calls = Append(@, Call(op, TRUE, arg))]

\* history: one more failed call
Failed(h, op, error) ==
  [h EXCEPT !.errors = @ + 1,
            !.firstError = IF h.errors = 0
                           THEN [op |-> op, code |-> CodeOf(error)] ELSE @,
            !.calls = Append(@, Call(op, FALSE, << >>))]

RECURSIVE SumErrors(_)
SumErrors(n) == IF n = 0 THEN 0 ELSE ghost[n].errors + SumErrors(n - 1)

\* how many calls have failed in this run
FaultCount == SumErrors(Len(urls))

\* one more call may fail
CanFail == FaultCount < MaxFaults /\ Len(urls) + FaultCount < MaxLoad

\* what a store call of the run can throw
StoreFailures == IF CanFail THEN StoreErrors ELSE {}

\* results.<list>.push(entry), and the callback goes on
SettleWithoutReturn(j, list, entry) ==
  /\ results' = [results EXCEPT ![list] = Append(@, entry)]
  /\ UNCHANGED pc

\* results.<list>.push(entry); return
Settle(j, list, entry) ==
  /\ results' = [results EXCEPT ![list] = Append(@, entry)]
  /\ pc' = [pc EXCEPT ![j] = "done"]

\* the catch block of the callback
CatchUrl(j, error) ==
  /\ Settle(j, "failed",
            [url |-> urls[j], error |-> ErrorMessage(error), idx |-> j])
  /\ thrown' = [thrown EXCEPT ![j] = error]

\* the answer of the overwrite prompt is not looked at
AfterPromptIgnored(update) == "fetch"

\* if (!update) { skipped; return }
AfterPrompt(update) == IF ~update THEN "skip" ELSE "fetch"

\* createRecipe is called whatever the existence check returned
SaveStepCreates(id) == "create"

\* if (existingId) updateRecipe(...) else createRecipe(...)
SaveStep(id) == IF Truthy(id) THEN "update_properties" ELSE "create"

\* every transformed recipe is reviewed, whatever the length of the list
NeedsReviewAlways == TRUE

\* urls.length === 1 ? await reviewRecipe(recipe) : recipe
NeedsReview == Len(urls) = 1

\* the validateOnly option is not looked at
ValidatesOnlyIgnored == FALSE

\* if (options.validateOnly) { successful "validated"; return }
ValidatesOnly == validateOnly

\* x.split("\n").filter((x) => x.trim()) on the lines the user left
NonBlank(q) == SelectSeq(q, LAMBDA x : x.v # "")

\* reviewRecipe, "Edit": the prompts' answers (here the defaults, with the
\* name the user typed), and nothing else of the recipe
Edited(r, name) ==
  [name |-> Str(name),
   ingredients |-> Arr(NonBlank(r["ingredients"].v)),
   instructions |->
     Arr([n \in 1..Len(NonBlank([m \in 1..Len(r["instructions"].v) |->
                                   r["instructions"].v[m].v["text"]])) |->
            Obj([text |-> NonBlank([m \in 1..Len(r["instructions"].v) |->
                                      r["instructions"].v[m].v["text"]])[n]])]),
   cuisineType |-> OrElse(r["cuisineType"], Str("")),
   prepTime |-> OrElse(r["prepTime"], Str("")),
   cookTime |-> OrElse(r["cookTime"], Str("")),
   recipeYield |-> OrElse(r["recipeYield"], Str("")),
   notes |-> OrElse(r["notes"], Str(""))]

\* const existingId = await notionManager.findRecipeByUrl(url)
FindRecipeByUrl(j) ==
  /\ pc[j] = "find"
  /\ \/ \E found \in FindResults(urls[j]) :
          /\ existingId' = [existingId EXCEPT ![j] = found]
          /\ pc' = [pc EXCEPT ![j] = IF Truthy(found) THEN "prompt" ELSE "fetch"]
          /\ ghost' = [ghost EXCEPT ![j] = Called(@, "find", << >>)]
          /\ UNCHANGED << results, thrown >>
     \/ \E error \in StoreFailures :
          /\ CatchUrl(j, FindCatch(error))
          /\ ghost' = [ghost EXCEPT ![j] = Failed(@, "find", error)]
          /\ UNCHANGED existingId
  /\ UNCHANGED << processor, loopLog, urls, batchSizeOpt, validateOnly, run, main, i, store, recipe,
                  allBlocks, retries, delay, rlog >>

\* const { update } = await inquirer.prompt(...)
OverwritePrompt(j) ==
  /\ pc[j] = "prompt"
  /\ \/ \E update \in BOOLEAN :
          /\ ghost' = [ghost EXCEPT ![j] =
                         Called([@ EXCEPT !.prompted =
                                   IF update THEN "accepted" ELSE "declined"],
                                "prompt", << >>)]
          /\ IF AfterPrompt(update) = "skip"
             THEN Settle(j, "skipped",
                         [url |-> urls[j], reason |-> "Recipe already exists",
                          idx |-> j])
             ELSE pc' = [pc EXCEPT ![j] = "fetch"] /\ UNCHANGED results
          /\ UNCHANGED thrown
     \/ /\ CanFail
        /\ CatchUrl(j, PromptError)
        /\ ghost' = [ghost EXCEPT ![j] = Failed(@, "prompt", PromptError)]
  /\ UNCHANGED << processor, loopLog, urls, batchSizeOpt, validateOnly, run, main, i, store,
                  existingId, recipe, allBlocks, retries, delay, rlog >>

\* html = await fetchPageContent(url); extractFromHtml; validateOnly; transform
FetchPage(j) ==
  /\ pc[j] = "fetch"
  /\ \/ /\ CanFail
        /\ CatchUrl(j, FetchError)
        /\ ghost' = [ghost EXCEPT ![j] = [Failed(@, "fetch", FetchError)
                                            EXCEPT !.fetched = TRUE]]
        /\ UNCHANGED recipe
     \/ \E html \in PagesAt(urls[j]) :
          LET extracted == ExtractFromHtml(html) IN
          /\ ghost' = [ghost EXCEPT ![j] =
                         [@ EXCEPT !.fetched = TRUE,
                                   !.calls = @ \o << Call("fetch", TRUE, << >>),
                                                     Call("extract", extracted.ok, << >>) >>
                                               \o (IF extracted.ok /\ ~ValidatesOnly
                                                   THEN << Call("transform",
                                                                Transform(extracted.schemas[1]).ok,
                                                                << >>) >>
                                                   ELSE << >>)]]
          /\ IF ~extracted.ok
             THEN CatchUrl(j, extracted.error) /\ UNCHANGED recipe
             ELSE IF ValidatesOnly
             THEN /\ Settle(j, "successful",
                            [url |-> urls[j], recipeId |-> "validated", idx |-> j])
                  /\ UNCHANGED << recipe, thrown >>
             ELSE LET transformed == Transform(extracted.schemas[1]) IN
                  IF ~transformed.ok
                  THEN CatchUrl(j, transformed.error) /\ UNCHANGED recipe
                  ELSE /\ recipe' = [recipe EXCEPT ![j] = transformed.recipe]
                       /\ pc' = [pc EXCEPT ![j] =
                                   IF NeedsReview THEN "review"
                                   ELSE SaveStep(existingId[j])]
                       /\ UNCHANGED << results, thrown >>
  /\ UNCHANGED << processor, loopLog, urls, batchSizeOpt, validateOnly, run, main, i, store,
                  existingId, allBlocks, retries, delay, rlog >>

\* const finalRecipe = await reviewRecipe(recipe); if (!finalRecipe) ...
ReviewRecipe(j) ==
  /\ pc[j] = "review"
  /\ \/ /\ Settle(j, "skipped",
                  [url |-> urls[j], reason |-> "User cancelled", idx |-> j])
        /\ ghost' = [ghost EXCEPT ![j] =
                       Called([@ EXCEPT !.reviewed = "cancelled"], "review", << >>)]
        /\ UNCHANGED << recipe, thrown >>
     \/ /\ pc' = [pc EXCEPT ![j] = SaveStep(existingId[j])]
        /\ ghost' = [ghost EXCEPT ![j] =
                       Called([@ EXCEPT !.reviewed = "saved"], "review", << >>)]
        /\ UNCHANGED << recipe, results, thrown >>
     \/ \E name \in { "Soup", "" } :
          /\ recipe' = [recipe EXCEPT ![j] = Edited(@, name)]
          /\ pc' = [pc EXCEPT ![j] = SaveStep(existingId[j])]
          /\ ghost' = [ghost EXCEPT ![j] =
                         Called([@ EXCEPT !.reviewed = "edited"], "review", << >>)]
          /\ UNCHANGED << results, thrown >>
     \/ /\ CanFail
        /\ CatchUrl(j, PromptError)
        /\ ghost' = [ghost EXCEPT ![j] = [Failed(@, "review", PromptError)
                                            EXCEPT !.reviewed = "threw"]]
        /\ UNCHANGED recipe
  /\ UNCHANGED << processor, loopLog, urls, batchSizeOpt, validateOnly, run, main, i, store,
                  existingId, allBlocks, retries, delay, rlog >>

\* const pageId = await notionManager.createRecipe(finalRecipe)
CreateRecipe(j) ==
  /\ pc[j] = "create"
  /\ \/ /\ store' = store \cup { NewPage(NewPageId, recipe[j], urls[j]) }
        /\ Settle(j, "successful",
                  [url |-> urls[j], recipeId |-> NewPageId, idx |-> j])
        /\ ghost' = [ghost EXCEPT ![j] =
                       Called([@ EXCEPT !.wrote = TRUE], "create", << >>)]
        /\ UNCHANGED thrown
     \/ \E error \in StoreFailures :
          /\ CatchUrl(j, CreateCatch(error))
          /\ ghost' = [ghost EXCEPT ![j] = [Failed(@, "create", error)
                                              EXCEPT !.wrote = TRUE]]
          /\ UNCHANGED store
  /\ UNCHANGED << processor, loopLog, urls, batchSizeOpt, validateOnly, run, main, i, existingId,
                  recipe, allBlocks, retries, delay, rlog >>

(***************************************************************************)
(* updateRecipe: each wrapped call is one attempt of retry per step.       *)
(***************************************************************************)
\* history: the log of the retry call this attempt belongs to
LogOf(j, op) ==
  IF rlog[j].state = "running" THEN rlog[j]
  ELSE [NoLog EXCEPT !.op = op, !.state = "running",
                     !.retries0 = retries[j], !.delay0 = delay[j]]

\* return await operation(): the attempt succeeded and retry returns
RetryReturn(j, op) ==
  /\ rlog' = [rlog EXCEPT ![j] = [LogOf(j, op) EXCEPT
                                    !.outcomes = Append(@, "ok"),
                                    !.state = "returned"]]
  /\ retries' = [retries EXCEPT ![j] = RetryDefaultRetries]
  /\ delay' = [delay EXCEPT ![j] = RetryDefaultDelay]

\* the attempt threw `error`: retry waits `delay` and calls itself with
\* retries - 1 and delay * 2, or rethrows
RetryFrame(j, op, error) ==
  LET c == RetryCatch(error, retries[j], delay[j]) IN
  IF c.again
  THEN /\ rlog' = [rlog EXCEPT ![j] = [LogOf(j, op) EXCEPT
                                         !.outcomes = Append(@, CodeOf(error)),
                                         !.waits = Append(@, c.wait)]]
       /\ retries' = [retries EXCEPT ![j] = c.retries]
       /\ delay' = [delay EXCEPT ![j] = c.delay]
  ELSE /\ rlog' = [rlog EXCEPT ![j] = [LogOf(j, op) EXCEPT
                                         !.outcomes = Append(@, CodeOf(error)),
                                         !.state = "threw",
                                         !.error = c.error]]
       /\ retries' = [retries EXCEPT ![j] = RetryDefaultRetries]
       /\ delay' = [delay EXCEPT ![j] = RetryDefaultDelay]

\* retry wrapped around the whole body of updateRecipe: a new attempt starts
\* the sequence again at the property update
RetryResumeSequence(step) == "update_properties"

\* return retry(operation, retries - 1, delay * 2): the new attempt invokes the
\* operation that was passed to this retry call, the step itself
RetryResume(step) == step

\* a wrapped call of updateRecipe threw `error`: retry tries again, or rethrows
\* to the catch block of updateRecipe and from there to the callback's
RetryThrow(j, op, error) ==
  LET c == RetryCatch(error, retries[j], delay[j]) IN
  /\ ghost' = [ghost EXCEPT ![j] = [Failed(@, op, error) EXCEPT !.wrote = TRUE]]
  /\ RetryFrame(j, op, error)
  /\ IF c.again
     THEN /\ pc' = [pc EXCEPT ![j] = RetryResume(pc[j])]
          /\ UNCHANGED << results, thrown >>
     ELSE CatchUrl(j, UpdateCatch(c.error))

\* Step 1: await retry(() => this.notion.pages.update(...))
UpdateProperties(j) ==
  /\ pc[j] = "update_properties"
  /\ \/ /\ RetryReturn(j, "pages.update")
        /\ store' = WithProperties(existingId[j].v, recipe[j])
        /\ pc' = [pc EXCEPT ![j] = "list"]
        /\ ghost' = [ghost EXCEPT ![j] =
                       Called([@ EXCEPT !.wrote = TRUE, !.updates = @ + 1],
                              "pages.update", << >>)]
        /\ UNCHANGED << results, thrown >>
     \/ \E error \in StoreFailures :
          /\ RetryThrow(j, "pages.update", error)
          /\ UNCHANGED store
  /\ UNCHANGED << processor, loopLog, urls, batchSizeOpt, validateOnly, run, main, i, existingId,
                  recipe, allBlocks >>

\* page_size of blocks.children.list
ListPageSize == 100

\* the loop over the listing ends after its first response
NextCursorIgnored(rest, n) == FALSE

\* next_cursor of a response that gives the first n of the blocks in `rest`
NextCursor(rest, n) == n < Len(rest)

\* the append is issued straight after the listing
AfterListAppends(ids) == "append"

\* for (const block of allBlocks): the first deletion, or none to make
AfterList(ids) == IF Len(ids) = 0 THEN "append" ELSE "delete"

\* Step 2: one pass of the do-while over blocks.children.list.  The response
\* holds the blocks after the cursor, as many as the store gives in one
\* response and at most page_size of them; the loop goes on while next_cursor
\* is set
ListBlocks(j) ==
  /\ pc[j] = "list"
  /\ \/ LET collected == allBlocks[j]
            rest == SelectSeq(PageById(existingId[j].v).blocks,
                              LAMBDA b : collected = << >>
                                         \/ b.id > collected[Len(collected)])
            n == Min(Len(rest), Min(ListPageSize, StorePageLen))
            ids == [m \in 1..n |-> rest[m].id]
        IN
        /\ allBlocks' = [allBlocks EXCEPT ![j] = collected \o ids]
        /\ pc' = [pc EXCEPT ![j] = IF NextCursor(rest, n) THEN "list"
                                   ELSE AfterList(collected \o ids)]
        /\ ghost' = [ghost EXCEPT ![j] = Called(@, "blocks.list", ids)]
        /\ UNCHANGED << results, thrown >>
     \/ \E error \in StoreFailures :
          /\ CatchUrl(j, UpdateCatch(error))
          /\ ghost' = [ghost EXCEPT ![j] = Failed(@, "blocks.list", error)]
          /\ UNCHANGED allBlocks
  /\ UNCHANGED << processor, loopLog, urls, batchSizeOpt, validateOnly, run, main, i, store,
                  existingId, recipe, retries, delay, rlog >>

\* Step 3: for (const block of allBlocks) await retry(() => blocks.delete(...))
DeleteBlock(j) ==
  /\ pc[j] = "delete"
  /\ \/ /\ RetryReturn(j, "blocks.delete")
        /\ store' = WithoutBlock(existingId[j].v, Head(allBlocks[j]))
        /\ allBlocks' = [allBlocks EXCEPT ![j] = Tail(@)]
        /\ pc' = [pc EXCEPT ![j] =
                    IF Len(allBlocks[j]) = 1 THEN "append" ELSE "delete"]
        /\ ghost' = [ghost EXCEPT ![j] =
                       Called([@ EXCEPT !.wrote = TRUE], "blocks.delete",
                              << Head(allBlocks[j]) >>)]
        /\ UNCHANGED << results, thrown >>
     \/ \E error \in StoreFailures :
          /\ RetryThrow(j, "blocks.delete", error)
          /\ UNCHANGED << store, allBlocks >>
  /\ UNCHANGED << processor, loopLog, urls, batchSizeOpt, validateOnly, run, main, i, existingId,
                  recipe >>

\* Step 5: await retry(() => blocks.children.append(...)), then
\* results.successful.push({ url, recipeId: existingId })
AppendBlocks(j) ==
  /\ pc[j] = "append"
  /\ \/ /\ RetryReturn(j, "blocks.append")
        /\ store' = WithAppended(existingId[j].v, recipe[j])
        /\ Settle(j, "successful",
                  [url |-> urls[j], recipeId |-> existingId[j].v, idx |-> j])
        /\ ghost' = [ghost EXCEPT ![j] =
                       Called([@ EXCEPT !.wrote = TRUE], "blocks.append", << >>)]
        /\ UNCHANGED thrown
     \/ \E error \in StoreFailures :
          /\ RetryThrow(j, "blocks.append", error)
          /\ UNCHANGED store
  /\ UNCHANGED << processor, loopLog, urls, batchSizeOpt, validateOnly, run, main, i, existingId,
                  recipe, allBlocks >>

(***************************************************************************)
(* executeChop: the batch loop.                                            *)
(***************************************************************************)
\* for (...; i < urls.length; ...) { batch = urls.slice(i, i + batchSize);
\* Promise.all(batch.map(...)): every callback runs up to its first await
StartBatch ==
  /\ main = "loop"
  /\ i < Len(urls)
  /\ pc' = [j \in Positions |-> IF j \in Batch(i, batchSize) THEN "find" ELSE pc[j]]
  /\ main' = "await"
  /\ loopLog' = Logged([batch |-> Batch(i, batchSize)])
  /\ UNCHANGED << processor, urls, batchSizeOpt, validateOnly, run, i, store, results,
                  existingId, recipe, allBlocks, retries, delay, rlog, thrown,
                  ghost >>

\* the inter-batch delay: wait(1000)
BatchDelayMs == 1000

\* the callbacks of a batch are started and not awaited
ResolvedAtOnce(batch) == TRUE

\* Promise.all over a batch resolves: every callback of the batch has ended
Resolved(batch) == \A j \in batch : pc[j] = "done"

\* the delay is taken after every batch
MoreToProcessAlways == TRUE

\* if (i + batchSize < urls.length)
MoreToProcess == i + batchSize < Len(urls)

\* Promise.all resolves; if (i + batchSize < urls.length) wait 1000 ms
BatchDone ==
  /\ main = "await"
  /\ Resolved(Batch(i, batchSize))
  /\ IF MoreToProcess
     THEN /\ main' = "delay"
          /\ loopLog' = Logged([wait |-> BatchDelayMs])
          /\ UNCHANGED i
     ELSE /\ main' = "loop"
          /\ i' = NextIndex
          /\ UNCHANGED loopLog
  /\ UNCHANGED << processor, urls, batchSizeOpt, validateOnly, run, store, results, pc,
                  existingId, recipe, allBlocks, retries, delay, rlog, thrown,
                  ghost >>

\* the inter-batch delay elapses; i += batchSize
BatchDelay ==
  /\ main = "delay"
  /\ main' = "loop"
  /\ i' = NextIndex
  /\ UNCHANGED << processor, loopLog, urls, batchSizeOpt, validateOnly, run, store, results, pc,
                  existingId, recipe, allBlocks, retries, delay, rlog, thrown,
                  ghost >>

\* the loop condition fails: spinner.succeed, the results are printed
Report ==
  /\ main = "loop"
  /\ ~(i < Len(urls))
  /\ main' = "report"
  /\ UNCHANGED << processor, loopLog, urls, batchSizeOpt, validateOnly, run, i, store, results, pc,
                  existingId, recipe, allBlocks, retries, delay, rlog, thrown,
                  ghost >>

\* the command is run again with the same arguments, on the store as it is
SecondRun ==
  /\ main = "report"
  /\ run = "first"
  /\ run' = "second"
  /\ main' = "loop"
  /\ i' = 0
  /\ results' = EmptyResults
  /\ pc' = [j \in Positions |-> "pending"]
  /\ existingId' = [j \in Positions |-> Null]
  /\ recipe' = [j \in Positions |-> Null]
  /\ allBlocks' = [j \in Positions |-> << >>]
  /\ retries' = [j \in Positions |-> RetryDefaultRetries]
  /\ delay' = [j \in Positions |-> RetryDefaultDelay]
  /\ rlog' = [j \in Positions |-> NoLog]
  /\ thrown' = [j \in Positions |-> NoError]
  /\ ghost' = [j \in Positions |-> NoHistory]
  /\ loopLog' = << >>
  /\ UNCHANGED << processor, urls, batchSizeOpt, validateOnly, store >>

\* the URL lists of the model: up to the naming of the URLs, every list of at
\* most MaxUrls URLs
UrlLists == { q \in SeqsUpTo(Urls, MaxUrls) : q[1] = "https://a.example/soup" }

\* a page that an earlier run created for the first URL
ExistingPage ==
  NewPage("page-1",
          TransformRecipe(PageDeclaring("https://a.example/soup")[1].data),
          "https://a.example/soup")

\* the database before the run: empty, or holding that page
InitialStores == { {}, { ExistingPage } }

Init ==
  /\ urls \in UrlLists
  /\ batchSizeOpt \in 0..MaxBatchSize
  /\ validateOnly \in BOOLEAN
  /\ run = "first"
  /\ store \in InitialStores
  /\ StartRun
  /\ input = Null
  /\ output = << >>

Next ==
  \/ StartBatch
  \/ BatchDone
  \/ BatchDelay
  \/ Report
  \/ \E j \in Positions : FindRecipeByUrl(j)
  \/ \E j \in Positions : OverwritePrompt(j)
  \/ \E j \in Positions : FetchPage(j)
  \/ \E j \in Positions : ReviewRecipe(j)
  \/ \E j \in Positions : CreateRecipe(j)
  \/ \E j \in Positions : UpdateProperties(j)
  \/ \E j \in Positions : ListBlocks(j)
  \/ \E j \in Positions : DeleteBlock(j)
  \/ \E j \in Positions : AppendBlocks(j)

\* one run of executeChop, on any database
Spec == Init /\ [][Next]_vars

\* one run of executeChop with any integer given as --batch-size; parseInt
\* gives NaN for an option that is no number, and NaN || 5 is 5 as 0 || 5 is
LoopInit ==
  /\ urls \in UrlLists
  /\ batchSizeOpt \in (0 - MaxBatchSize)..MaxBatchSize
  /\ validateOnly \in BOOLEAN
  /\ run = "first"
  /\ store \in InitialStores
  /\ StartRun
  /\ input = Null
  /\ output = << >>

\* the run goes on for as long as it has a step to take
LoopFairSpec == LoopInit /\ [][Next]_vars /\ WF_vars(Next)

\* two successive runs of executeChop on a database that starts empty
RerunInit == Init /\ store = {}

RerunNext == Next \/ SecondRun

RerunSpec == RerunInit /\ [][RerunNext]_vars

(***************************************************************************)
(* retry on its own: one call retry(operation, retries, delay) with any    *)
(* budget up to the default and any outcome of each attempt.               *)
(***************************************************************************)
RetryDelays == { RetryDefaultDelay, 500, 250 }

RetryInit ==
  /\ urls = << "https://a.example/soup" >>
  /\ batchSizeOpt = 0
  /\ validateOnly = FALSE
  /\ run = "first"
  /\ store = {}
  /\ main = "await"
  /\ i = 0
  /\ results = EmptyResults
  /\ pc = [j \in Positions |-> "retry"]
  /\ existingId = [j \in Positions |-> Null]
  /\ recipe = [j \in Positions |-> Null]
  /\ allBlocks = [j \in Positions |-> << >>]
  /\ retries \in [Positions -> 0..RetryDefaultRetries]
  /\ delay \in [Positions -> RetryDelays]
  /\ rlog = [j \in Positions |-> NoLog]
  /\ thrown = [j \in Positions |-> NoError]
  /\ ghost = [j \in Positions |-> NoHistory]
  /\ loopLog = << >>
  /\ input = Null
  /\ output = << >>

\* one attempt of the operation inside retry
RetryOperation(j) ==
  /\ pc[j] = "retry"
  /\ \/ /\ RetryReturn(j, "operation")
        /\ pc' = [pc EXCEPT ![j] = "returned"]
        /\ UNCHANGED << thrown, ghost >>
     \/ \E error \in StoreErrors :
          LET c == RetryCatch(error, retries[j], delay[j]) IN
          /\ ghost' = [ghost EXCEPT ![j] = Failed(@, "operation", error)]
          /\ RetryFrame(j, "operation", error)
          /\ IF c.again
             THEN UNCHANGED << pc, thrown >>
             ELSE /\ pc' = [pc EXCEPT ![j] = "threw"]
                  /\ thrown' = [thrown EXCEPT ![j] = c.error]
  /\ UNCHANGED << processor, loopLog, urls, batchSizeOpt, validateOnly, run, main, i, store, results,
                  existingId, recipe, allBlocks >>

RetryNext == \E j \in Positions : RetryOperation(j)

RetrySpec == RetryInit /\ [][RetryNext]_vars

\* every attempt settles: the operation's promise resolves or rejects, and the
\* timer of wait(delay) fires
RetryFairSpec == RetrySpec /\ WF_vars(RetryNext)

(***************************************************************************)
(* RecipeSchemaProcessor.extractFromHtml on its own: one call on any        *)
(* document of the model.                                                   *)
(***************************************************************************)
\* a script node whose text JSON.parse rejects
Malformed == [parses |-> FALSE, data |-> Undefined]

\* a key of a JSON object, left out when the value is undefined
Field(k, v) == IF v.t = "undefined" THEN << >> ELSE k :> v

Contexts ==
  { Str("https://schema.org"), Str("http://schema.org"),
    Str("https://schema.org/"), Undefined }

Types ==
  { Str("Recipe"), Arr(<< Str("Thing"), Str("Recipe") >>), Str("Article"),
    Arr(<< Str("Article") >>), Undefined }

Names == { Str("Soup"), Str(""), Undefined }

Bodies ==
  { [recipeIngredient |-> Arr(<< Str("water") >>)],
    [recipeInstructions |-> Str("Boil.")],
    << >> }

Entity(type, name, body) == Field("@type", type) @@ Field("name", name) @@ body

FullEntity == Entity(Str("Recipe"), Str("Soup"), [recipeIngredient |-> Arr(<< >>)])

Article == Obj(Entity(Str("Article"), Str("News"), << >>))

\* parsed values without @graph
DirectValues ==
  { Obj(Field("@context", c) @@ Entity(t, n, b)) :
      c \in Contexts, t \in Types, n \in Names, b \in Bodies }

\* the @graph members of the model
Graphs ==
  { Arr(<< Article, Obj(FullEntity) >>),
    Arr(<< Obj(Entity(Str("Recipe"), Undefined, << >>)), Obj(FullEntity) >>),
    Arr(<< Obj(Entity(Arr(<< Str("Recipe") >>), Str("Stew"),
                      [recipeInstructions |-> Arr(<< >>)])) >>),
    Arr(<< Article >>),
    Arr(<< Str("x"), Null >>),
    Str("not an array") }

\* parsed values with @graph: the top level is bare or is itself a full recipe
GraphValues ==
  { Obj(Field("@context", c) @@ ("@graph" :> g) @@ top) :
      c \in { Str("https://schema.org"), Undefined }, g \in Graphs,
      top \in { << >>, FullEntity } }

\* parsed values that are not objects
OtherValues ==
  { Arr(<< Obj(("@context" :> Str("https://schema.org")) @@ FullEntity) >>),
    Str("Recipe"), Null }

\* optional fields of a recipe: two that scoreRecipeSchema counts, one that it
\* does not
Extras ==
  { [recipeCuisine |-> Str("French")], [totalTime |-> Str("PT1H")],
    [description |-> Str("A soup.")] }

RECURSIVE Merge(_)
Merge(S) ==
  IF S = {} THEN << >>
  ELSE LET f == CHOOSE f \in S : TRUE IN f @@ Merge(S \ { f })

\* qualifying recipes that differ in which optional fields they carry
Candidates == { Obj(SoupFields @@ Merge(S)) : S \in SUBSET Extras }

\* documents of one script node of any shape, and documents of up to
\* MaxBlocks script nodes that are candidates, teasers or malformed
Documents ==
  { << Script(v) >> : v \in DirectValues \cup GraphValues \cup OtherValues }
  \cup { << >> }
  \cup SeqsUpTo({ Script(v) : v \in Candidates } \cup { Malformed, PageTeaser[1] },
                MaxBlocks)

ExtractInit ==
  /\ urls = << "https://a.example/soup" >>
  /\ batchSizeOpt = 0
  /\ validateOnly = FALSE
  /\ run = "first"
  /\ store = {}
  /\ main = "await"
  /\ i = 0
  /\ results = EmptyResults
  /\ pc = [j \in Positions |-> "extract"]
  /\ existingId = [j \in Positions |-> Null]
  /\ recipe = [j \in Positions |-> Null]
  /\ allBlocks = [j \in Positions |-> << >>]
  /\ retries = [j \in Positions |-> RetryDefaultRetries]
  /\ delay = [j \in Positions |-> RetryDefaultDelay]
  /\ rlog = [j \in Positions |-> NoLog]
  /\ thrown = [j \in Positions |-> NoError]
  /\ ghost = [j \in Positions |-> NoHistory]
  /\ loopLog = << >>
  /\ input \in Documents
  /\ output = << >>

\* const schemas = schemaProcessor.extractFromHtml(html)
ExtractCall ==
  /\ pc[1] = "extract"
  /\ output' = << ExtractFromHtml(input) >>
  /\ pc' = [pc EXCEPT ![1] = IF ExtractFromHtml(input).ok THEN "returned" ELSE "threw"]
  /\ UNCHANGED << input, loopLog, urls, batchSizeOpt, validateOnly, run, main, i,
                  store, results, existingId, recipe, allBlocks, retries, delay,
                  rlog, thrown, ghost >>

ExtractNext == ExtractCall

ExtractSpec == ExtractInit /\ [][ExtractNext]_vars

(***************************************************************************)
(* RecipeSchemaProcessor.transform on its own: two calls in succession on  *)
(* the same candidate object.  `input` is the candidate as it is now and   *)
(* `output` holds what each call returned, as it was when it returned.     *)
(***************************************************************************)
KeywordValues ==
  { Undefined, Str("soup, winter"), Arr(<< Str("soup") >>), Arr(<< >>) }

CategoryValues ==
  { Undefined, Str("Dinner"), Arr(<< Str("Dinner") >>),
    Arr(<< Str("Dinner"), Str("Main") >>) }

UrlValues == { Undefined, Str("https://a.example/soup") }

\* the recipe entities given to transform: they differ in keywords, category
\* and url, or in the shape of recipeIngredient and of a text field
TransformEntities ==
  { FullEntity @@ Field("keywords", k) @@ Field("recipeCategory", c) @@ Field("url", u) :
      k \in KeywordValues, c \in CategoryValues, u \in UrlValues }
  \cup
  { Entity(Str("Recipe"), Str("Soup"), [recipeInstructions |-> Arr(<< Str("Boil.") >>)])
      @@ Field("recipeIngredient", g) @@ Field("recipeCuisine", c) :
      g \in { Undefined, Null, Str(""), Str("water"), Arr(<< >>),
               Arr(<< Str("water"), Str("salt") >>) },
      c \in { Undefined, Null, Str(""), Str("Thai"), Arr(<< >>),
               Arr(<< Str("Thai"), Str("Asian") >>) } }

\* the candidates given to transform: the entity at the top level or inside
\* @graph, and one value that validate() rejects
TransformInputs ==
  { Obj(("@context" :> Str("https://schema.org")) @@ e) : e \in TransformEntities }
  \cup { Obj(("@context" :> Str("https://schema.org"))
              @@ ("@graph" :> Arr(<< Article, Obj(e) >>))) : e \in TransformEntities }
  \cup { PageTeaser[1].data }

TransformInit ==
  /\ urls = << "https://a.example/soup" >>
  /\ batchSizeOpt = 0
  /\ validateOnly = FALSE
  /\ run = "first"
  /\ store = {}
  /\ main = "await"
  /\ i = 0
  /\ results = EmptyResults
  /\ pc = [j \in Positions |-> "transform"]
  /\ existingId = [j \in Positions |-> Null]
  /\ recipe = [j \in Positions |-> Null]
  /\ allBlocks = [j \in Positions |-> << >>]
  /\ retries = [j \in Positions |-> RetryDefaultRetries]
  /\ delay = [j \in Positions |-> RetryDefaultDelay]
  /\ rlog = [j \in Positions |-> NoLog]
  /\ thrown = [j \in Positions |-> NoError]
  /\ ghost = [j \in Positions |-> NoHistory]
  /\ loopLog = << >>
  /\ input \in TransformInputs
  /\ output = << >>

\* schemaProcessor.transform(schema), the first and the second time
TransformCall ==
  /\ pc[1] \in { "transform", "transform again" }
  /\ output' = Append(output, Transform(input))
  /\ input' = TransformMutated(input)
  /\ pc' = [pc EXCEPT ![1] = IF pc[1] = "transform" THEN "transform again"
                             ELSE "returned"]
  /\ UNCHANGED << loopLog, urls, batchSizeOpt, validateOnly, run, main, i,
                  store, results, existingId, recipe, allBlocks, retries, delay,
                  rlog, thrown, ghost >>

TransformNext == TransformCall

TransformSpec == TransformInit /\ [][TransformNext]_vars

(***************************************************************************)
(* NotionRecipeManager.parseTimeToMinutes on its own.  A time string is     *)
(* given character by character: [t |-> "string", v |-> << "4", "5", ... >>]*)
(***************************************************************************)
Num(n) == [t |-> "number", v |-> n]

NaN == [t |-> "NaN"]

Digit ==
  [c \in { "0", "1", "2", "3", "4", "5", "6", "7", "8", "9" } |->
     CASE c = "0" -> 0 [] c = "1" -> 1 [] c = "2" -> 2 [] c = "3" -> 3
       [] c = "4" -> 4 [] c = "5" -> 5 [] c = "6" -> 6 [] c = "7" -> 7
       [] c = "8" -> 8 [] c = "9" -> 9]

\* parseInt(q): leading white space is skipped, then an optional sign, then
\* the longest run of digits; NaN when there is no digit there
ParseInt(q) ==
  LET RECURSIVE Skip(_)
      Skip(n) == IF n <= Len(q) /\ q[n] \in { " ", "\r", "\t" } THEN Skip(n + 1) ELSE n
      first == Skip(1)
      signed == first <= Len(q) /\ q[first] \in { "-", "+" }
      from == IF signed THEN first + 1 ELSE first
      RECURSIVE Value(_, _)
      Value(n, acc) ==
        IF n <= Len(q) /\ q[n] \in DOMAIN Digit
        THEN Value(n + 1, 10 * acc + Digit[q[n]]) ELSE acc
  IN IF ~(from <= Len(q) /\ q[from] \in DOMAIN Digit) THEN NaN
     ELSE IF signed /\ q[first] = "-" THEN Num(0 - Value(from, 0))
     ELSE Num(Value(from, 0))

\* timeStr.match(/(\d+)X/)?.[1] || "0": the digits of the leftmost run of
\* digits that is followed by the letter X
DigitsBefore(q, letter) ==
  LET runs == { r \in (1..Len(q)) \X (1..Len(q)) :
                  /\ r[1] <= r[2]
                  /\ r[2] < Len(q)
                  /\ \A k \in r[1]..r[2] : q[k] \in DOMAIN Digit
                  /\ q[r[2] + 1] = letter }
  IN IF runs = {} THEN << "0" >>
     ELSE LET r == CHOOSE r \in runs : \A o \in runs : r[1] <= o[1]
          IN SubSeq(q, r[1], r[2])

\* parseTimeToMinutes; a value that is not a string has no startsWith, and
\* the TypeError is caught
ParseTimeToMinutes(timeStr) ==
  IF timeStr.t # "string" THEN Null
  ELSE LET q == timeStr.v
           lower == [n \in 1..Len(q) |->
                       CASE q[n] = "M" -> "m" [] q[n] = "I" -> "i"
                         [] q[n] = "N" -> "n" [] OTHER -> q[n]]
       IN IF Len(q) >= 2 /\ SubSeq(q, 1, 2) = << "P", "T" >>
          THEN Num(ParseInt(DigitsBefore(q, "H")).v * 60
                   + ParseInt(DigitsBefore(q, "M")).v)
          ELSE IF \E n \in 1..(Len(q) - 2) : SubSeq(lower, n, n + 2) = << "m", "i", "n" >>
          THEN ParseInt(q)
          ELSE Null

\* the time strings of the model: every string of up to MaxTimeLen of these
\* characters, and some longer ones
TimeStrings ==
  UNION { [1..m -> { "P", "T", "H", "M", "1", "5", "m", "i", "n", " " }] :
            m \in 0..MaxTimeLen }
  \cup { << "P", "T", "1", "H", "3", "0", "M" >>, << "P", "T", "4", "5", "M" >>,
         << "P", "T", "2", "H" >>, << "4", "5", " ", "m", "i", "n" >>,
         << "4", "5", " ", "M", "I", "N" >>, << "1", "0", "m", "i", "n", "s" >>,
         << "t", "o", "n", "i", "g", "h", "t" >>, << "1", " ", "h", "o", "u", "r" >>,
         << "5", " ", "m", "i", "n", "u", "t", "e", "s" >>,
         << "-", "5", " ", "m", "i", "n" >> }

\* the state of executeChop while a component is called on its own
Alone(label) ==
  /\ urls = << "https://a.example/soup" >>
  /\ batchSizeOpt = 0
  /\ validateOnly = FALSE
  /\ run = "first"
  /\ store = {}
  /\ main = "await"
  /\ i = 0
  /\ results = EmptyResults
  /\ pc = [j \in Positions |-> label]
  /\ existingId = [j \in Positions |-> Null]
  /\ recipe = [j \in Positions |-> Null]
  /\ allBlocks = [j \in Positions |-> << >>]
  /\ retries = [j \in Positions |-> RetryDefaultRetries]
  /\ delay = [j \in Positions |-> RetryDefaultDelay]
  /\ rlog = [j \in Positions |-> NoLog]
  /\ thrown = [j \in Positions |-> NoError]
  /\ ghost = [j \in Positions |-> NoHistory]
  /\ loopLog = << >>

\* the variables that a component called on its own leaves alone
beside ==
  << input, loopLog, urls, batchSizeOpt, validateOnly, run, main, i, store,
     results, existingId, recipe, allBlocks, retries, delay, rlog, ghost >>

TimeInit ==
  /\ Alone("parse time")
  /\ input \in { [t |-> "string", v |-> q] : q \in TimeStrings } \cup { Num(45) }
  /\ output = << >>

\* this.parseTimeToMinutes(recipe.prepTime)
ParseTimeCall ==
  /\ pc[1] = "parse time"
  /\ output' = << ParseTimeToMinutes(input) >>
  /\ pc' = [pc EXCEPT ![1] = "returned"]
  /\ UNCHANGED << input, loopLog, urls, batchSizeOpt, validateOnly, run, main, i,
                  store, results, existingId, recipe, allBlocks, retries, delay,
                  rlog, thrown, ghost >>

TimeSpec == TimeInit /\ [][ParseTimeCall]_vars

(***************************************************************************)
(* fetchPageContent on its own.  `input` is the site: what the static fetch *)
(* gives and the document the browser shows once the page has settled;      *)
(* `output` is the history of the call: the browsers launched and closed,   *)
(* and how the call ended.                                                  *)
(***************************************************************************)
\* hasRecipeSchema: some script node parses to a value whose @type is a
\* string containing "Recipe" (of the type strings of the model, "Recipe"
\* alone) or an array including it; a TypeError on the way counts as false
HasRecipeSchema(html) ==
  \E n \in 1..Len(html) :
    /\ html[n].parses
    /\ html[n].data.t = "object"
    /\ Has(html[n].data.v, "@type")
    /\ LET type == html[n].data.v["@type"] IN
       \/ IsString(type) /\ type.v = "Recipe"
       \/ IsArray(type) /\ ArrIncludes(type.v, "Recipe")

\* the static fetch without the catch block: its error reaches the caller
AfterStaticUncaught(static) ==
  IF ~static.ok THEN "throw"
  ELSE IF HasRecipeSchema(static.html) THEN "return" ELSE "launch"

\* tier 1, the try block and its catch: the HTML is returned when the fetch
\* gave a document in which hasRecipeSchema holds; whatever else happened,
\* an error thrown included, the browser is tried
AfterStatic(static) ==
  IF static.ok /\ HasRecipeSchema(static.html) THEN "return" ELSE "launch"

\* tier 2 without the finally block: the error leaves the call at once
AfterBrowserErrorUnclosed == "threw"

\* tier 2, try { ... } finally { await browser.close() }
AfterBrowserError == "close"

\* the documents of the model: a recipe at the top level, with a string and
\* with an array as its type, a recipe inside @graph, a Recipe-typed block
\* that is no candidate, a malformed block, the value null, no block
FetchedDocuments ==
  { PageNoUrl, PageTeaser, << Malformed >>, << Script(Null) >>, << >>,
    << Script(Obj(("@context" :> Str("https://schema.org"))
                  @@ Entity(Arr(<< Str("Thing"), Str("Recipe") >>), Str("Soup"),
                            [recipeIngredient |-> Arr(<< >>)]))) >>,
    << Script(Obj(("@context" :> Str("https://schema.org"))
                  @@ ("@graph" :> Arr(<< Article, Obj(FullEntity) >>)))) >> }

FetchInit ==
  /\ Alone("static")
  /\ input \in
       { [static |-> s, rendered |-> d] :
           s \in { [ok |-> TRUE, html |-> h] : h \in FetchedDocuments }
                 \cup { [ok |-> FALSE, error |-> e] :
                          e \in { "fetch failed", "Not Found", "invalid encoding" } },
           d \in FetchedDocuments }
  /\ output = << >>

\* try { fetch; response.ok; response.text(); JSDOM; hasRecipeSchema } catch
FetchStatic ==
  /\ pc[1] = "static"
  /\ LET next == AfterStatic(input.static) IN
     CASE next = "return" ->
            /\ output' = Append(output, [ev |-> "return", html |-> input.static.html])
            /\ pc' = [pc EXCEPT ![1] = "returned"]
       [] next = "launch" ->
            /\ output' = output
            /\ pc' = [pc EXCEPT ![1] = "launch"]
       [] OTHER ->
            /\ output' = Append(output, [ev |-> "throw", step |-> "static"])
            /\ pc' = [pc EXCEPT ![1] = "threw"]
  /\ UNCHANGED << beside, thrown >>

\* const browser = await puppeteer.launch({ headless: true }), outside the try
LaunchBrowser ==
  /\ pc[1] = "launch"
  /\ \/ /\ output' = Append(output, [ev |-> "launch", ok |-> TRUE])
        /\ pc' = [pc EXCEPT ![1] = "newPage"]
     \/ /\ output' = output \o << [ev |-> "launch", ok |-> FALSE],
                                   [ev |-> "throw", step |-> "launch"] >>
        /\ pc' = [pc EXCEPT ![1] = "threw"]
  /\ UNCHANGED << beside, thrown >>

\* the awaits of the try block in turn: browser.newPage(), page.goto(url),
\* page.waitForFunction(hasRecipeSchema, 10 s), page.content().  Each can
\* reject; the wait resolves when hasRecipeSchema holds in the settled
\* document and times out when it does not
BrowserStep ==
  /\ pc[1] \in { "newPage", "goto", "wait", "content" }
  /\ \/ /\ pc[1] = "wait" => HasRecipeSchema(input.rendered)
        /\ pc' = [pc EXCEPT ![1] =
                    CASE pc[1] = "newPage" -> "goto" [] pc[1] = "goto" -> "wait"
                      [] pc[1] = "wait" -> "content" [] OTHER -> "close"]
        /\ output' = IF pc[1] = "content"
                     THEN Append(output, [ev |-> "content", html |-> input.rendered])
                     ELSE output
        /\ UNCHANGED thrown
     \/ /\ pc[1] = "wait" => ~HasRecipeSchema(input.rendered)
        /\ thrown' = [thrown EXCEPT ![1] = [message |-> pc[1]]]
        /\ pc' = [pc EXCEPT ![1] = AfterBrowserError]
        /\ output' = IF AfterBrowserError = "close" THEN output
                     ELSE Append(output, [ev |-> "throw", step |-> pc[1]])
  /\ UNCHANGED beside

\* finally { await browser.close() }, then the return or the throw it held up
CloseBrowser ==
  /\ pc[1] = "close"
  /\ IF thrown[1] = NoError
     THEN /\ output' = output \o << [ev |-> "close"],
                                     [ev |-> "return", html |-> input.rendered] >>
          /\ pc' = [pc EXCEPT ![1] = "returned"]
     ELSE /\ output' = output \o << [ev |-> "close"],
                                     [ev |-> "throw", step |-> thrown[1].message] >>
          /\ pc' = [pc EXCEPT ![1] = "threw"]
  /\ UNCHANGED << beside, thrown >>

FetchNext == FetchStatic \/ LaunchBrowser \/ BrowserStep \/ CloseBrowser

FetchSpec == FetchInit /\ [][FetchNext]_vars

(***************************************************************************)
(* executeChop reading its URLs from the input file.  The file's content is *)
(* given character by character; "a" and "b" stand for the characters of a  *)
(* URL.                                                                     *)
(***************************************************************************)
\* content.split("\n"): the pieces between the line feeds, empty ones too
RECURSIVE SplitLines(_)
SplitLines(q) ==
  IF \A n \in 1..Len(q) : q[n] # "\n" THEN << q >>
  ELSE LET n == CHOOSE n \in 1..Len(q) :
                  q[n] = "\n" /\ \A m \in 1..(n - 1) : q[m] # "\n"
       IN << SubSeq(q, 1, n - 1) >> \o SplitLines(SubSeq(q, n + 1, Len(q)))

\* url.trim(): white space and line terminators are cut off both ends
RECURSIVE Trim(_)
Trim(q) ==
  IF q = << >> THEN q
  ELSE IF Head(q) \in { " ", "\t", "\r", "\n" } THEN Trim(Tail(q))
  ELSE IF q[Len(q)] \in { " ", "\t", "\r", "\n" } THEN Trim(SubSeq(q, 1, Len(q) - 1))
  ELSE q

\* content.split("\n").filter(Boolean).map((url) => url.trim())
UrlsOfFile(content) ==
  LET kept == SelectSeq(SplitLines(content), LAMBDA line : line # << >>)
  IN [n \in 1..Len(kept) |-> Trim(kept[n])]

InputInit ==
  /\ Alone("read input")
  /\ input \in { [t |-> "string", v |-> q] :
                   q \in UNION { [1..m -> { "a", "b", " ", "\r", "\n" }] :
                                   m \in 0..MaxFileLen } }
  /\ output = << >>

\* const content = await fs.readFile(options.input, "utf-8"); urls = ...
ReadInputFile ==
  /\ pc[1] = "read input"
  /\ output' = UrlsOfFile(input.v)
  /\ pc' = [pc EXCEPT ![1] = "returned"]
  /\ UNCHANGED << beside, thrown >>

InputSpec == InputInit /\ [][ReadInputFile]_vars

(***************************************************************************)
(* The scan command: the AI processing of one photo.  `input` holds the     *)
(* options of the command as registerScanCommand hands them to executeScan; *)
(* `output` is the history of the inference calls and of the file's report. *)
(***************************************************************************)
\* processWithRetry(operation, maxRetries = 3)
ProcessWithRetryDefault == 3

\* the maxRetries of the processWithRetry call in processMultipleImages: the
\* call passes the operation alone, so it is the parameter's default;
\* options.maxRetries is read nowhere
InferenceMaxRetries(options) == ProcessWithRetryDefault

\* the options of the model: --retries N (the string "3" when not given,
\* parsed with parseInt(options.retries, 10)), --model and --single
ScanInit ==
  /\ Alone("inference")
  /\ input \in [maxRetries : 1..MaxRetriesOption, given : BOOLEAN,
                 model : { "claude", "gpt4" }, single : BOOLEAN]
  /\ ~input.given => input.maxRetries = 3
  /\ output = << >>

\* one pass of the loop of processWithRetry, attempt = 1 + the calls made:
\* return await operation(), or the catch, the pause of attempt * 1000 ms
\* when attempt < maxRetries, and throw lastError after the last attempt
InferenceAttempt ==
  /\ pc[1] = "inference"
  /\ LET attempt == Len(SelectSeq(output, LAMBDA e : e.ev = "call")) + 1 IN
     \/ /\ output' = Append(output, [ev |-> "call", ok |-> TRUE])
        /\ pc' = [pc EXCEPT ![1] = "returned"]
     \/ /\ output' = output \o << [ev |-> "call", ok |-> FALSE] >>
                        \o (IF attempt < InferenceMaxRetries(input)
                            THEN << [ev |-> "pause", ms |-> attempt * 1000] >>
                            ELSE << >>)
        /\ pc' = [pc EXCEPT ![1] =
                    IF attempt < InferenceMaxRetries(input) THEN "inference"
                    ELSE "threw"]
  /\ UNCHANGED << beside, thrown >>

\* the error leaves processMultipleImages as "AI processing failed: ...": the
\* catch of the file loop logs the file as an error, and with --single the
\* outer catch fails the whole run
ScanCatch ==
  /\ pc[1] = "threw"
  /\ output' = Append(output, [ev |-> "report", status |-> "error",
                               rethrown |-> input.single])
  /\ pc' = [pc EXCEPT ![1] = "failed"]
  /\ UNCHANGED << beside, thrown >>

ScanNext == InferenceAttempt \/ ScanCatch

ScanSpec == ScanInit /\ [][ScanNext]_vars

(***************************************************************************)
(* One run of executeChop on one URL whose page holds one given candidate.  *)
(***************************************************************************)
\* the candidates the site serves: they differ in the name and in the shape
\* of recipeInstructions
ServedCandidates ==
  { Obj(("@context" :> Str("https://schema.org"))
        @@ Entity(Str("Recipe"), name, [recipeIngredient |-> Arr(<< Str("water") >>)])
        @@ Field("recipeInstructions", steps)) :
      name \in { Str("Soup"), Str("") },
      steps \in { Undefined, Str("Boil."), Arr(<< >>),
                  Arr(<< Str("Boil."), Str("Serve.") >>),
                  Arr(<< Str("Serve."), Str("Boil.") >>),
                  Arr(<< Obj([text |-> Str("Boil.")]), Str("Serve.") >>),
                  Arr(<< Obj([text |-> Str("Stir.")]), Obj([text |-> Str("Boil.")]),
                         Obj([text |-> Str("Stir.")]) >>) } }

PageInit ==
  /\ urls = << "https://a.example/soup" >>
  /\ batchSizeOpt = 0
  /\ validateOnly = FALSE
  /\ run = "first"
  /\ store \in InitialStores
  /\ StartRun
  /\ input \in ServedCandidates
  /\ output = << >>

\* a run on one URL: there is no second batch to wait for
PageNext ==
  \/ StartBatch
  \/ BatchDone
  \/ Report
  \/ \E j \in Positions : FindRecipeByUrl(j)
  \/ \E j \in Positions : OverwritePrompt(j)
  \/ \E j \in Positions : FetchPage(j)
  \/ \E j \in Positions : ReviewRecipe(j)
  \/ \E j \in Positions : CreateRecipe(j)
  \/ \E j \in Positions : UpdateProperties(j)
  \/ \E j \in Positions : ListBlocks(j)
  \/ \E j \in Positions : DeleteBlock(j)
  \/ \E j \in Positions : AppendBlocks(j)

PageSpec == PageInit /\ [][PageNext]_vars

(***************************************************************************)
(* Properties.                                                             *)
(***************************************************************************)
Lists == { "successful", "failed", "skipped" }

\* the entries of the three result lists that belong to list position j
EntriesOf(j) ==
  { e \in UNION { { [list |-> l, n |-> n] : n \in 1..Len(results[l]) } : l \in Lists } :
      results[e.list][e.n].idx = j }

\* position j has exactly one entry, and it is in `list`
SettledIn(j, list) ==
  /\ Cardinality(EntriesOf(j)) = 1
  /\ \A e \in EntriesOf(j) : e.list = list /\ results[e.list][e.n].url = urls[j]

Occurrences(u) == { j \in Positions : urls[j] = u }

\* C1: when executeChop completes, each occurrence of a URL in the list has
\* exactly one entry in exactly one of successful, failed and skipped; before
\* that, an occurrence has one entry once its callback has ended and none
\* while it has not, so nothing is processed twice and nothing is left out.
C1_EveryUrlExactlyOnce ==
  /\ \A j \in Positions :
       /\ Cardinality(EntriesOf(j)) = (IF pc[j] = "done" THEN 1 ELSE 0)
       /\ \A e \in EntriesOf(j) : results[e.list][e.n].url = urls[j]
  /\ main = "report" =>
       /\ \A j \in Positions : pc[j] = "done"
       /\ Len(results.successful) + Len(results.failed) + Len(results.skipped)
            = Len(urls)

C1_Witness ==
  /\ main = "report"
  /\ Len(urls) > 1
  /\ urls[1] = urls[2]
  /\ batchSizeOpt = 1
  /\ Len(results.successful) = 1
  /\ Len(results.failed) = 1

\* C2: an error raised at any stage of one URL's callback ends that URL with
\* one entry in failed carrying the error's message, and the run still ends
\* with a result for every other URL.
C2_FailureIsolated ==
  /\ \A j \in Positions :
       thrown[j] # NoError =>
         /\ pc[j] = "done"
         /\ SettledIn(j, "failed")
         /\ \A e \in EntriesOf(j) : results[e.list][e.n].error = thrown[j].message
  /\ main = "report" => \A j \in Positions : Cardinality(EntriesOf(j)) = 1

C2_Witness ==
  /\ main = "report"
  /\ Len(urls) > 1
  /\ thrown[1] # NoError
  /\ ghost[1].firstError.op = "find"
  /\ SettledIn(2, "successful")
  /\ ~validateOnly

\* C3: importing the same URL in two successive runs leaves one record for
\* that URL, the second run updating the record the first run created.
C3_IdempotentUpsert ==
  (run = "second" /\ main = "report") =>
    \A u \in Urls :
      Cardinality(Occurrences(u)) = 1 =>
        Cardinality({ p \in store : p.src = u }) <= 1

\* C4: the source.url of every transformed recipe, and the URL property of
\* every page written to the store, is the URL that was fetched.
C4_SourceUrlIsFetchedUrl ==
  /\ \A j \in Positions :
       (pc[j] \in { "review", "create", "update_properties" }
        /\ Has(recipe[j], "source")) =>
         StrEq(Get(recipe[j]["source"].v, "url"), urls[j])
  /\ \A p \in store : p.props.URL = p.src

\* C5: a URL whose existence check found a page and whose overwrite prompt was
\* declined ends as skipped with reason "Recipe already exists", without a
\* fetch and without a store-mutating call.
C5_DeclinedOverwriteSkips ==
  \A j \in Positions :
    ghost[j].prompted = "declined" =>
      /\ Truthy(existingId[j])
      /\ pc[j] = "done"
      /\ SettledIn(j, "skipped")
      /\ \A e \in EntriesOf(j) :
           results[e.list][e.n].reason = "Recipe already exists"
      /\ ~ghost[j].fetched
      /\ ~ghost[j].wrote

C5_Witness ==
  \E j \in Positions :
    /\ ghost[j].prompted = "declined"
    /\ pc[j] = "done"
    /\ main = "report"

\* C6: in validateOnly mode no store-mutating call is issued, and a URL whose
\* extraction succeeds ends as succeeded ("validated") without transform,
\* review or sync.
C6_ValidateOnlyNeverWrites ==
  validateOnly =>
    \A j \in Positions :
      /\ ~ghost[j].wrote
      /\ recipe[j] = Null
      /\ pc[j] \in { "pending", "find", "prompt", "fetch", "done" }
      /\ (pc[j] = "done" /\ ghost[j].fetched /\ thrown[j] = NoError) =>
           /\ SettledIn(j, "successful")
           /\ \A e \in EntriesOf(j) : results[e.list][e.n].recipeId = "validated"

C6_Witness ==
  /\ validateOnly
  /\ main = "report"
  /\ store # {}
  /\ \E j \in Positions :
       /\ ghost[j].prompted = "accepted"
       /\ SettledIn(j, "successful")

\* the store calls that updateRecipe wraps in retry
WrappedOps == { "pages.update", "blocks.delete", "blocks.append" }

\* the only call of position j that failed is `op`, with a conflict error
OnlyConflictAt(j, ops) ==
  /\ ghost[j].errors = 1
  /\ ghost[j].firstError.code = "conflict_error"
  /\ ghost[j].firstError.op \in ops

\* C7: a wrapped store operation that fails with a conflict on its first
\* attempt and succeeds on its second is invoked twice with one delay, the
\* base delay, in between; a URL whose only failed call was such a conflict
\* ends as succeeded.
C7_OneConflictOneRetry ==
  \A j \in Positions :
    /\ (Len(rlog[j].outcomes) >= 2
        /\ rlog[j].outcomes[1] = "conflict_error"
        /\ rlog[j].outcomes[2] = "ok") =>
         /\ Len(rlog[j].outcomes) = 2
         /\ rlog[j].waits = << RetryDefaultDelay >>
         /\ rlog[j].state = "returned"
    /\ (pc[j] = "done" /\ OnlyConflictAt(j, WrappedOps)) =>
         /\ SettledIn(j, "successful")
         /\ thrown[j] = NoError

C7_Witness ==
  \E j \in Positions :
    /\ pc[j] = "done"
    /\ OnlyConflictAt(j, { "blocks.delete" })
    /\ SettledIn(j, "successful")

\* C8: a page create that fails once with a conflict error is retried, and
\* the URL ends as succeeded.
C8_CreateRetriesConflict ==
  \A j \in Positions :
    (pc[j] = "done" /\ OnlyConflictAt(j, { "create" })) =>
      SettledIn(j, "successful")

\* C9: an attempt that fails with a non-conflict error is the last attempt of
\* its retry call: retry rethrows that same error without a delay after it,
\* whatever budget is left; failing so at the first attempt, the operation is
\* invoked once.
C9_NonConflictNotRetried ==
  \A j \in Positions :
    \A n \in 1..Len(rlog[j].outcomes) :
      rlog[j].outcomes[n] \notin { "conflict_error", "ok" } =>
        /\ n = Len(rlog[j].outcomes)
        /\ Len(rlog[j].waits) = n - 1
        /\ rlog[j].state = "threw"
        /\ CodeOf(rlog[j].error) = rlog[j].outcomes[n]
        /\ thrown[j] = rlog[j].error
        /\ pc[j] = "threw"

C9_Witness ==
  \E j \in Positions :
    /\ rlog[j].retries0 = RetryDefaultRetries
    /\ rlog[j].outcomes = << "validation_error" >>
    /\ rlog[j].waits = << >>
    /\ pc[j] = "threw"

RECURSIVE Pow2(_)
Pow2(n) == IF n = 0 THEN 1 ELSE 2 * Pow2(n - 1)

\* the retry call of position j has the default arguments
DefaultCall(j) ==
  rlog[j].retries0 = RetryDefaultRetries /\ rlog[j].delay0 = RetryDefaultDelay

AllConflicts(q) == \A n \in 1..Len(q) : q[n] = "conflict_error"

C10_Bounded ==
  \A j \in Positions :
    /\ Len(rlog[j].outcomes) <= rlog[j].retries0 + 1
    /\ \A n \in 1..Len(rlog[j].waits) :
         rlog[j].waits[n] = rlog[j].delay0 * Pow2(n - 1)
    /\ DefaultCall(j) =>
         /\ Len(rlog[j].outcomes) <= 4
         /\ rlog[j].waits = SubSeq(<< 1000, 2000, 4000 >>, 1, Len(rlog[j].waits))
    /\ (Len(rlog[j].outcomes) = rlog[j].retries0 + 1
        /\ AllConflicts(rlog[j].outcomes)) =>
         /\ rlog[j].state = "threw"
         /\ rlog[j].error = ConflictError
         /\ thrown[j] = ConflictError

\* C10: retry is bounded with doubling backoff: at most retries + 1 attempts
\* (4 with the default arguments), delays of delay, 2*delay, 4*delay (1000,
\* 2000, 4000 ms) between them, the conflict error rethrown after the last
\* attempt; and every retry call ends.
C10_RetryBoundedBackoff ==
  /\ []C10_Bounded
  /\ <>(\A j \in Positions : pc[j] # "retry")

C10_Witness ==
  \E j \in Positions :
    /\ DefaultCall(j)
    /\ Len(rlog[j].outcomes) = 4
    /\ AllConflicts(rlog[j].outcomes)
    /\ rlog[j].waits = << 1000, 2000, 4000 >>
    /\ pc[j] = "threw"

\* the entry of position j in results.successful is the id of the page that
\* updateRecipe was called on
UpdatedOk(j) ==
  /\ pc[j] = "done"
  /\ SettledIn(j, "successful")
  /\ Truthy(existingId[j])
  /\ \A e \in EntriesOf(j) : results[e.list][e.n].recipeId = existingId[j].v

\* C11: retry wraps each step of updateRecipe on its own: once pages.update
\* has succeeded it is not issued again, whatever conflicts and retries come
\* later in the block deletions or the append, and an updateRecipe call that
\* succeeds holds exactly one successful pages.update call.
C11_PropertyUpdateOnce ==
  \A j \in Positions :
    /\ ghost[j].updates <= 1
    /\ pc[j] = "update_properties" => ghost[j].updates = 0
    /\ pc[j] \in { "list", "delete", "append" } => ghost[j].updates = 1
    /\ UpdatedOk(j) => ghost[j].updates = 1

C11_Witness ==
  \E j \in Positions :
    /\ UpdatedOk(j)
    /\ OnlyConflictAt(j, { "blocks.delete", "blocks.append" })
    /\ ghost[j].updates = 1

\* the batch (0-based) that list position j belongs to
BatchOf(j) == (j - 1) \div batchSize

\* the callbacks that have started and not ended
InFlight == { j \in Positions : pc[j] \notin { "pending", "done" } }

\* C12: batches are strictly sequential: no URL of a later batch has started
\* while a URL of an earlier batch has not ended, and at every moment at most
\* batchSize callbacks are in flight.
C12_BatchesSequential ==
  /\ Cardinality(InFlight) <= batchSize
  /\ \A j, k \in Positions :
       (BatchOf(j) < BatchOf(k) /\ pc[k] # "pending") => pc[j] = "done"
  /\ \A j, k \in InFlight : BatchOf(j) = BatchOf(k)

C12_Witness ==
  /\ Len(urls) = 2
  /\ batchSize = 1
  /\ pc[1] = "done"
  /\ pc[2] \in { "list", "delete", "append" }

\* ceil(n / b) for the list length and the batch size of the run
NumBatches == (Len(urls) + batchSize - 1) \div batchSize

\* list positions k*b .. min((k+1)*b, n) - 1 counted from 0, as positions
\* counted from 1
ExpectedBatch(k) ==
  { p \in 1..Len(urls) :
      k * batchSize + 1 <= p /\ p <= Min((k + 1) * batchSize, Len(urls)) }

\* batch 0, delay, batch 1, delay, ..., last batch
ExpectedLog ==
  [n \in 1..(2 * NumBatches - 1) |->
     IF n % 2 = 1 THEN [batch |-> ExpectedBatch((n - 1) \div 2)]
     ELSE [wait |-> 1000]]

\* C13: the URL list is cut into ceil(n/b) consecutive batches of b positions
\* (5 when the option is absent), batch k holding positions k*b ..
\* min((k+1)*b, n)-1, and the inter-batch delay is taken between two batches:
\* ceil(n/b)-1 times, never after the last batch.
C13_ConsecutiveBatches ==
  /\ Len(loopLog) <= Len(ExpectedLog)
  /\ loopLog = SubSeq(ExpectedLog, 1, Len(loopLog))
  /\ main = "report" => loopLog = ExpectedLog
  /\ batchSizeOpt = 0 => batchSize = 5

C13_Witness ==
  /\ main = "report"
  /\ Len(urls) = 2
  /\ batchSize = 1
  /\ Len(loopLog) = 3
  /\ loopLog[1] = [batch |-> { 1 }]
  /\ loopLog[3] = [batch |-> { 2 }]

SaveSteps == { "create", "update_properties", "list", "delete", "append" }

\* C14: reviewRecipe is called for a transformed recipe exactly when the run
\* has one URL; with more URLs the recipe goes to create/update unreviewed;
\* with one URL a null review result ends the URL as skipped with reason
\* "User cancelled" and no create or update call is made.
C14_ReviewOnlySingleUrl ==
  \A j \in Positions :
    /\ (pc[j] = "review" \/ ghost[j].reviewed # "none") => Len(urls) = 1
    /\ (Len(urls) = 1 /\ recipe[j] # Null) =>
         (pc[j] = "review" \/ ghost[j].reviewed # "none")
    /\ (Len(urls) = 1 /\ (pc[j] \in SaveSteps \/ ghost[j].wrote)) =>
         ghost[j].reviewed \in { "saved", "edited" }
    /\ (Len(urls) > 1 /\ recipe[j] # Null) =>
         (ghost[j].reviewed = "none" /\ pc[j] \in SaveSteps \cup { "done" })
    /\ ghost[j].reviewed = "cancelled" =>
         /\ pc[j] = "done"
         /\ SettledIn(j, "skipped")
         /\ \A e \in EntriesOf(j) : results[e.list][e.n].reason = "User cancelled"
         /\ ~ghost[j].wrote
         /\ ghost[j].updates = 0

C14_Witness ==
  /\ main = "report"
  /\ Len(urls) = 1
  /\ ghost[1].reviewed = "cancelled"
  /\ Truthy(existingId[1])
  /\ store = { ExistingPage }

(***************************************************************************)
(* Properties of extractFromHtml, stated on one call: `input` is the       *)
(* document and `output` holds the result once the call has ended.         *)
(***************************************************************************)
Extracted == Len(output) = 1

\* a @type that is "Recipe" or an array including "Recipe"
IsOrIncludesRecipe(type) ==
  \/ type = Str("Recipe")
  \/ (type.t = "array" /\ \E n \in 1..Len(type.v) : type.v[n] = Str("Recipe"))

\* the entries of a top-level @graph array that are Recipe-typed
RecipeEntries(v) ==
  IF "@graph" \in DOMAIN v /\ v["@graph"].t = "array"
  THEN { n \in 1..Len(v["@graph"].v) :
           /\ v["@graph"].v[n].t = "object"
           /\ IsOrIncludesRecipe(Get(v["@graph"].v[n].v, "@type")) }
  ELSE {}

\* the effective entity of a parsed object
EffectiveEntity(v) ==
  IF RecipeEntries(v) = {} THEN v
  ELSE v["@graph"].v[CHOOSE n \in RecipeEntries(v) :
                       \A m \in RecipeEntries(v) : n <= m].v

\* the qualification rule, as the specification words it
Qualifies(data) ==
  /\ data.t = "object"
  /\ Get(data.v, "@context") \in { Str("https://schema.org"), Str("http://schema.org") }
  /\ IsOrIncludesRecipe(Get(EffectiveEntity(data.v), "@type"))
  /\ "name" \in DOMAIN EffectiveEntity(data.v)
  /\ { "recipeIngredient", "recipeInstructions" } \cap DOMAIN EffectiveEntity(data.v) # {}

\* the script nodes of the document that parse and qualify
QualifyingIn(html) == { n \in 1..Len(html) : html[n].parses /\ Qualifies(html[n].data) }

ScoreOf(data) == ScoreRecipeSchema(data.v)

\* C15: extractFromHtml returns every qualifying candidate of the document,
\* by descending score: for k qualifying blocks the list has length k.
C15_ReturnsAllCandidates ==
  (Extracted /\ output[1].ok) =>
    /\ Len(output[1].schemas) = Cardinality(QualifyingIn(input))
    /\ \A n \in QualifyingIn(input) :
         \E m \in 1..Len(output[1].schemas) : output[1].schemas[m] = input[n].data
    /\ \A m \in 1..(Len(output[1].schemas) - 1) :
         ScoreOf(output[1].schemas[m]) >= ScoreOf(output[1].schemas[m + 1])

\* the fields of the effective entity that hold a value
Populated(data) ==
  { k \in DOMAIN EffectiveEntity(data.v) : Truthy(EffectiveEntity(data.v)[k]) }

\* C16: in a document with two qualifying blocks A and B where the populated
\* fields of B are a strict subset of those of A, the top candidate is A,
\* whatever the order of the blocks and whatever the extra fields are.
C16_MoreCompleteRanksFirst ==
  (Extracted /\ Cardinality(QualifyingIn(input)) = 2) =>
    \A a, b \in QualifyingIn(input) :
      (Populated(input[b].data) \subseteq Populated(input[a].data)
       /\ Populated(input[b].data) # Populated(input[a].data)) =>
        /\ output[1].ok
        /\ output[1].schemas[1] = input[a].data

\* C17: extractFromHtml throws NO_SCHEMA_FOUND exactly when no script node
\* of the document qualifies (no node, malformed nodes, non-qualifying
\* nodes); otherwise it returns a list whose first element is a candidate.
C17_NoSchemaFoundIffNoneQualify ==
  Extracted =>
    /\ output[1].ok = (QualifyingIn(input) # {})
    /\ ~output[1].ok => (output[1].error.type = "NO_SCHEMA_FOUND"
                          /\ pc[1] = "threw")
    /\ output[1].ok =>
         /\ Len(output[1].schemas) >= 1
         /\ Qualifies(output[1].schemas[1])

C17_Witness ==
  /\ Extracted
  /\ ~output[1].ok
  /\ Len(input) = 2
  /\ ~input[1].parses
  /\ input[2].parses

\* C18: a script node that is not valid JSON is skipped: a document with
\* exactly one qualifying node, among any malformed or non-qualifying nodes
\* in any order, gives that node as the sole candidate.
C18_MalformedSkipped ==
  (Extracted /\ Cardinality(QualifyingIn(input)) = 1) =>
    /\ output[1].ok
    /\ \A n \in QualifyingIn(input) : output[1].schemas = << input[n].data >>

C18_Witness ==
  /\ Extracted
  /\ Len(input) = 2
  /\ input[1] = Malformed
  /\ QualifyingIn(input) = { 2 }
  /\ output[1].ok

\* C19: a parsed JSON-LD value is taken as a candidate if and only if its
\* @context is the schema.org context (http or https) and its effective
\* entity (first Recipe-typed entry of a top-level @graph array, else the
\* value) has @type equal to or including "Recipe", a name field, and
\* recipeIngredient or recipeInstructions.
C19_QualificationRule ==
  /\ \A n \in 1..Len(input) :
       input[n].parses => (IsSchemaRecipe(input[n].data) = Qualifies(input[n].data))
  /\ (Extracted /\ Len(input) = 1 /\ input[1].parses) =>
       (output[1].ok = Qualifies(input[1].data))

C19_Witness ==
  /\ Extracted
  /\ output[1].ok
  /\ Len(input) = 1
  /\ "@graph" \in DOMAIN input[1].data.v
  /\ "@type" \notin DOMAIN input[1].data.v

\* the fields of a canonical record, source.rawSchema apart (in both records
\* it is a reference to the one candidate object)
RecordFields ==
  { "name", "ingredients", "instructions", "cuisineType", "prepTime", "cookTime",
    "totalTime", "recipeYield", "notes", "description", "category", "keywords",
    "url" }

EqualFieldByField(r1, r2) ==
  /\ \A k \in RecordFields : r1[k] = r2[k]
  /\ r1["source"].v["url"] = r2["source"].v["url"]
  /\ r1["source"].v["schemaType"] = r2["source"].v["schemaType"]

Given(n) == output[n].recipe["source"].v["rawSchema"]

\* C21: transform has no side effect on its input: after a call has returned a
\* record, the candidate object (its keywords array included) is equal to
\* what it was before the call.
C21_TransformLeavesInput ==
  (Len(output) = 1 /\ output[1].ok) => input = Given(1)

\* C22: for a candidate whose recipeCategory is an array, the record's
\* category is its first element and the further elements follow, in order,
\* the keywords derived from the raw keywords (a comma-separated string
\* split, an array as it is); for a scalar recipeCategory the category is
\* that scalar and the keywords are the raw keywords alone.
C22_CategoryAndKeywords ==
  \A n \in 1..Len(output) :
    output[n].ok =>
      LET recipeData == ExtractRecipeData(Given(n).v)
          c == Get(recipeData, "recipeCategory")
          k == Get(recipeData, "keywords")
          raw == IF IsString(k) THEN SplitKeywords(k.v)
                 ELSE IF IsArray(k) THEN k.v ELSE << >>
          r == output[n].recipe
      IN /\ (IsArray(c) /\ Len(c.v) > 0) =>
              /\ r["category"] = c.v[1]
              /\ r["keywords"] = Arr(raw \o Tail(c.v))
         /\ (IsString(c) /\ c.v # "") =>
              /\ r["category"] = c
              /\ r["keywords"] = Arr(raw)

C22_Witness ==
  /\ Len(output) = 1
  /\ output[1].ok
  /\ output[1].recipe["category"] = Str("Dinner")
  /\ output[1].recipe["keywords"] = Arr(<< Str("soup"), Str("winter"), Str("Main") >>)

\* a field that is missing, null or empty
Absent(v) == v \in { Undefined, Null, Str(""), Arr(<< >>) }

\* C23: scalar-or-array normalisation is total: a scalar recipeIngredient s
\* yields [s], an array yields the same elements, an absent field yields the
\* empty sequence; a text field yields the first element of an array, the
\* scalar itself, or nothing when the field is absent or empty.
C23_NormalisationTotal ==
  \A n \in 1..Len(output) :
    output[n].ok =>
      LET recipeData == ExtractRecipeData(Given(n).v)
          g == Get(recipeData, "recipeIngredient")
          c == Get(recipeData, "recipeCuisine")
          r == output[n].recipe
      IN /\ IsString(g) => r["ingredients"] = Arr(<< g >>)
         /\ IsArray(g) => r["ingredients"] = g
         /\ g \in { Undefined, Null } => r["ingredients"] = Arr(<< >>)
         /\ (IsArray(c) /\ Len(c.v) > 0) => r["cuisineType"] = c.v[1]
         /\ (IsString(c) /\ c.v # "") => r["cuisineType"] = c
         /\ Absent(c) => r["cuisineType"] \in { Undefined, Null }

\* the text of an entry of recipeInstructions: the string, or its text field
TextOf(entry) == IF IsString(entry) THEN entry ELSE entry.v["text"]

\* the texts of the numbered-list blocks of a page, in block order
StepsOf(page) ==
  LET items == SelectSeq(page.blocks, LAMBDA b : b.type = "numbered_list_item")
  IN [n \in 1..Len(items) |-> items[n].text]

\* C24: instruction order is preserved end to end: for a candidate whose
\* recipeInstructions is an array of n strings or {text} objects, the
\* canonical instructions are n entries with the i-th text from the i-th
\* entry, and the numbered-list blocks that createRecipe and updateRecipe
\* write to the page are those n texts in the same order (for a record the
\* user saved as it is).
C24_InstructionOrder ==
  LET steps == Get(input.v, "recipeInstructions")
      expected == [n \in 1..Len(steps.v) |-> TextOf(steps.v[n])]
  IN (IsArray(steps) /\ recipe[1] # Null /\ ghost[1].reviewed # "edited") =>
       /\ Len(recipe[1]["instructions"].v) = Len(steps.v)
       /\ \A n \in 1..Len(steps.v) :
            recipe[1]["instructions"].v[n].v["text"] = expected[n]
       /\ \A n \in 1..Len(results["successful"]) :
            StepsOf(PageById(results["successful"][n].recipeId)) = expected

\* an existing page has been rewritten from a candidate of three steps, two
\* of them with the same text
C24_Witness ==
  /\ Len(results["successful"]) = 1
  /\ existingId[1] = Str("page-1")
  /\ ghost[1].reviewed = "saved"
  /\ IsArray(Get(input.v, "recipeInstructions"))
  /\ StepsOf(PageById("page-1")) = << Str("Stir."), Str("Boil."), Str("Stir.") >>

\* C26: a transformed record always has a string as its name, and no page
\* create and no property update is issued for a recipe whose name is the
\* empty string: such a URL ends as failed or skipped, not as successful.
C26_EmptyNameRejected ==
  \A j \in Positions :
    recipe[j] # Null =>
      /\ IsString(recipe[j]["name"])
      /\ recipe[j]["name"] = Str("") =>
           /\ ~ghost[j].wrote
           /\ ghost[j].updates = 0
           /\ \A n \in 1..Len(results["successful"]) :
                results["successful"][n].idx # j

\* the result is absent or a non-negative integer
MinutesOrAbsent(v) == v = Null \/ (v.t = "number" /\ v.v \in Nat)

\* the string starts with a digit
StartsWithDigit(q) == Len(q) > 0 /\ q[1] \in DOMAIN Digit

\* C25: parseTimeToMinutes never throws and returns a non-negative integer
\* number of minutes or nothing: a PT#H#M string gives 60 * hours + minutes
\* ("PT1H30M" gives 90), an "N min" string its integer prefix ("45 min"
\* gives 45), and every other string, also one that contains "min" and does
\* not start with digits, gives nothing (null), never NaN.
C25_MinutesOrAbsent ==
  pc[1] = "returned" =>
    /\ MinutesOrAbsent(output[1])
    /\ input.t = "string" =>
         /\ input.v = << "P", "T", "1", "H", "3", "0", "M" >> => output[1] = Num(90)
         /\ input.v = << "4", "5", " ", "m", "i", "n" >> => output[1] = Num(45)
         /\ (~StartsWithDigit(input.v)
             /\ ~(Len(input.v) >= 2 /\ input.v[1] = "P" /\ input.v[2] = "T")) =>
              output[1] = Null

\* fetchPageContent has returned or thrown
FetchEnded == pc[1] \in { "returned", "threw" }

\* the events of one kind in the history of the call
Events(kind) == SelectSeq(output, LAMBDA e : e.ev = kind)

\* C27: a tier-1 failure of any kind (a thrown network error, a status that
\* is not successful, a parse error) is never surfaced: tier 2 is then always
\* attempted, and fetchPageContent throws only when tier 2 itself fails (the
\* launch, a step in the browser, or the bounded wait for recipe markup).
C27_StaticFailureRecovered ==
  FetchEnded =>
    /\ ~input.static.ok => Len(Events("launch")) = 1
    /\ \A n \in 1..Len(output) :
         output[n].ev = "throw" =>
           output[n].step \in { "launch", "newPage", "goto", "wait", "content" }

\* the static fetch failed and the browser's document was returned
C27_Witness ==
  /\ pc[1] = "returned"
  /\ ~input.static.ok
  /\ output[Len(output)] = [ev |-> "return", html |-> input.rendered]

\* C28: every browser fetchPageContent launched is closed before it returns
\* or throws, on every path through tier 2 (page creation, navigation, the
\* wait for markup, success), and none is launched when the static fetch
\* already shows recipe-typed markup.
C28_BrowserClosed ==
  FetchEnded =>
    /\ Len(Events("close"))
         = Len(SelectSeq(output, LAMBDA e : e.ev = "launch" /\ e.ok))
    /\ (input.static.ok /\ HasRecipeSchema(input.static.html)) =>
         Events("launch") = << >>

\* the wait for markup timed out, and the browser was closed before the throw
C28_Witness ==
  /\ pc[1] = "threw"
  /\ thrown[1] = [message |-> "wait"]
  /\ output = << [ev |-> "launch", ok |-> TRUE], [ev |-> "close"],
                 [ev |-> "throw", step |-> "wait"] >>

\* C29: for every page whose statically fetched HTML holds a block that
\* extractFromHtml accepts as a candidate, a recipe inside a top-level
\* @graph included, the pre-check of fetchPageContent is true on that HTML:
\* the HTML is returned, and its extraction succeeds.
C29_StaticMarkupReturned ==
  (FetchEnded /\ input.static.ok /\ ExtractFromHtml(input.static.html).ok) =>
    /\ HasRecipeSchema(input.static.html)
    /\ output = << [ev |-> "return", html |-> input.static.html] >>

\* C30: when the URLs come from an input file, the URL list is the file's
\* non-blank lines in file order, each with the surrounding white space
\* trimmed: a line that is empty or only white space (a lone carriage return
\* included) gives no URL, so no empty-string URL is processed.
C30_NonBlankLinesTrimmed ==
  pc[1] = "returned" =>
    LET lines == SplitLines(input.v)
        nonBlank == SelectSeq(lines, LAMBDA line :
                      \E n \in 1..Len(line) : line[n] \notin { " ", "\t", "\r" })
    IN /\ output = [n \in 1..Len(nonBlank) |-> Trim(nonBlank[n])]
       /\ \A n \in 1..Len(output) : output[n] # << >>

\* C31: the scan command's --retries N sets the number of attempts made for
\* the AI processing of a photo: an inference call that always fails is
\* attempted exactly N times before the file is reported as failed (3 times
\* when the option is not given).
C31_RetriesOptionObeyed ==
  pc[1] = "failed" =>
    Len(SelectSeq(output, LAMBDA e : e.ev = "call")) = input.maxRetries

(***************************************************************************)
(* The content body on its own.  `input` is the recipe handed to           *)
(* createRecipe and to updateRecipe; `output` holds the children that each *)
(* of them sends.                                                          *)
(***************************************************************************)
\* the longest ingredient list and instruction list of the recipes built
MaxItems == 2

\* recipes: every list of at most MaxItems ingredients and of at most
\* MaxItems steps, with notes and description absent, null, empty or given
BodyRecipes ==
  { [name |-> Str("Soup"),
     ingredients |-> Arr(ing),
     instructions |-> Arr([n \in 1..Len(ins) |-> Obj([text |-> ins[n]])])]
    @@ Field("notes", notes) @@ Field("description", description) :
      ing \in { << >> } \cup SeqsUpTo({ Str("salt"), Str("leek") }, MaxItems),
      ins \in { << >> } \cup SeqsUpTo({ Str("Chop"), Str("Boil") }, MaxItems),
      notes \in { Undefined, Null, Str(""), Str("Serve hot") },
      description \in { Undefined, Null, Str(""), Str("A soup") } }

BodyInit ==
  /\ Alone("build")
  /\ input \in BodyRecipes
  /\ output = << >>

\* children: [...] of pages.create and of blocks.children.append
BuildChildren ==
  /\ pc[1] = "build"
  /\ output' = << CreateChildren(input), UpdateChildren(input) >>
  /\ pc' = [pc EXCEPT ![1] = "built"]
  /\ UNCHANGED << input, loopLog, urls, batchSizeOpt, validateOnly, run, main, i,
                  store, results, existingId, recipe, allBlocks, retries, delay,
                  rlog, thrown, ghost >>

BodySpec == BodyInit /\ [][BuildChildren]_vars

\* the calls of one kind that position j has made, failed ones too
CallsOf(j, ops) == SelectSeq(ghost[j].calls, LAMBDA c : c.op \in ops)

\* the block ids of the calls among them that succeeded, in call order
RECURSIVE Ids(_)
Ids(calls) ==
  IF calls = << >> THEN << >>
  ELSE (IF Head(calls).ok THEN Head(calls).arg ELSE << >>) \o Ids(Tail(calls))

IsPrefix(p, q) == Len(p) <= Len(q) /\ p = SubSeq(q, 1, Len(p))

\* the place of a store call in the sequence of updateRecipe
UpdateRank ==
  [op \in { "pages.update", "blocks.list", "blocks.delete", "blocks.append" } |->
     CASE op = "pages.update" -> 1 [] op = "blocks.list" -> 2
       [] op = "blocks.delete" -> 3 [] OTHER -> 4]

\* C32: updateRecipe issues its store calls in a fixed order: the property
\* update, then the paginated listing of the existing blocks, then one delete
\* per collected block, one after the other in listing order, then the
\* append; the append is issued only after every collected block has been
\* deleted.
C32_UpdateCallOrder ==
  \A j \in Positions :
    LET calls == CallsOf(j, DOMAIN UpdateRank)
        listed == Ids(CallsOf(j, { "blocks.list" }))
        deleted == Ids(CallsOf(j, { "blocks.delete" }))
    IN /\ \A m, n \in 1..Len(calls) :
            m < n => UpdateRank[calls[m].op] <= UpdateRank[calls[n].op]
       /\ IsPrefix(deleted, listed)
       /\ CallsOf(j, { "blocks.append" }) # << >> => deleted = listed
       /\ CallsOf(j, { "blocks.delete", "blocks.append" }) # << >> =>
            \E n \in 1..Len(calls) : calls[n].op = "pages.update" /\ calls[n].ok

\* an update of a page of two blocks that went through: two listing
\* responses, two deletes in listing order, one append
C32_Witness ==
  /\ UpdatedOk(1)
  /\ ghost[1].errors = 0
  /\ Len(CallsOf(1, { "blocks.list" })) = 2
  /\ Ids(CallsOf(1, { "blocks.delete" })) = << 1, 2 >>
  /\ Len(CallsOf(1, { "blocks.append" })) = 1

\* the blocks of a page without their ids
Body(page) ==
  [n \in 1..Len(page.blocks) |->
     [type |-> page.blocks[n].type, text |-> page.blocks[n].text]]

\* C33: after an updateRecipe call that returns successfully, with any
\* number of conflict retries inside it and no other writer on the page, the
\* page's content is exactly the template body built from the new recipe:
\* every block that existed before the call, across all listing pages, has
\* been deleted, and the new blocks appear exactly once.
C33_UpdateReplacesContent ==
  UpdatedOk(1) =>
    LET page == PageById(existingId[1].v) IN
    /\ Body(page) = UpdateChildren(recipe[1])
    /\ \A n \in 1..Len(page.blocks) :
         \A m \in 1..Len(ExistingPage.blocks) :
           page.blocks[n].id # ExistingPage.blocks[m].id

\* an update that met a conflict in a delete or in the append and went
\* through, for a recipe of three steps
C33_Witness ==
  /\ UpdatedOk(1)
  /\ OnlyConflictAt(1, { "blocks.delete", "blocks.append" })
  /\ Len(PageById("page-1").blocks) = 6
  /\ Body(PageById("page-1")) = UpdateChildren(recipe[1])

\* the last call of position j failed, and it was one of `ops`
FailedAt(j, ops) ==
  /\ pc[j] = "done"
  /\ ghost[j].calls # << >>
  /\ LET last == ghost[j].calls[Len(ghost[j].calls)] IN ~last.ok /\ last.op \in ops

\* C34: updateRecipe is not atomic: when a block delete or the append fails
\* with an error that is not a conflict (or runs out of retries),
\* updateRecipe throws and restores nothing: the page has the new properties
\* and lacks the blocks deleted so far (it has no content when the append
\* fails), and the URL is recorded as failed, not as succeeded.
C34_UpdateNotAtomic ==
  FailedAt(1, { "blocks.delete", "blocks.append" }) =>
    LET page == PageById(existingId[1].v)
        deleted == Ids(CallsOf(1, { "blocks.delete" }))
    IN /\ SettledIn(1, "failed")
       /\ thrown[1] # NoError
       /\ page.props = PageProperties(recipe[1])
       /\ page.blocks = SelectSeq(ExistingPage.blocks,
                                  LAMBDA b : \A n \in 1..Len(deleted) : b.id # deleted[n])
       /\ FailedAt(1, { "blocks.append" }) => page.blocks = << >>

\* a delete failed after the first block had been deleted: the page keeps the
\* new properties and the second block alone
C34_Witness ==
  /\ FailedAt(1, { "blocks.delete" })
  /\ Ids(CallsOf(1, { "blocks.delete" })) = << 1 >>
  /\ PageById("page-1").props = PageProperties(recipe[1])
  /\ PageById("page-1").props # ExistingPage.props
  /\ PageById("page-1").blocks = << ExistingPage.blocks[2] >>

\* the stage a call belongs to
StageRank ==
  [op \in { "find", "prompt", "fetch", "extract", "transform", "review", "create" }
            \cup DOMAIN UpdateRank |->
     CASE op = "find" -> 1 [] op = "prompt" -> 2 [] op = "fetch" -> 3
       [] op = "extract" -> 4 [] op = "transform" -> 5 [] op = "review" -> 6
       [] OTHER -> 7]

\* the URL at position j has an entry in one of the three result lists
HasResult(j) == \E list \in DOMAIN results : SettledIn(j, list)

\* the calls of position j are in stage order, each stage entered once and
\* after the stage before it returned
StagesInOrder(j) ==
  LET calls == ghost[j].calls IN
  /\ \A m, n \in 1..Len(calls) :
       m < n => /\ StageRank[calls[m].op] <= StageRank[calls[n].op]
                /\ StageRank[calls[m].op] = StageRank[calls[n].op] =>
                     calls[m].op \in DOMAIN UpdateRank
                /\ calls[m].ok \/ calls[m].op \in DOMAIN UpdateRank
  /\ \A n \in 1..Len(calls) :
       StageRank[calls[n].op] = 7 =>
         \A op \in { "find", "fetch", "extract", "transform" } :
           \E m \in 1..(n - 1) : calls[m].op = op /\ calls[m].ok
  /\ \A n \in 1..Len(calls) :
       calls[n].op \in { "extract", "transform" } =>
         n > 1 /\ calls[n - 1].ok /\ StageRank[calls[n - 1].op] = StageRank[calls[n].op] - 1

\* C35: within the pipeline of one URL the stages run in the order existence
\* check, (overwrite prompt), fetch, extract, transform, (review), store
\* write, each starting only after the one before it completed; every create
\* or update call for a URL comes after a completed existence check, fetch
\* and extraction for that URL, and once the URL has its result no further
\* call is made for it.
C35_StagesSequential ==
  /\ [](\A j \in Positions : StagesInOrder(j))
  /\ [][\A j \in Positions : HasResult(j) => ghost'[j].calls = ghost[j].calls]_vars

\* a URL that went through every stage: found, overwrite accepted, fetched,
\* extracted, transformed, reviewed, updated
C35_Witness ==
  /\ UpdatedOk(1)
  /\ HasResult(1)
  /\ Len(ghost[1].calls) >= 11
  /\ \A op \in { "find", "prompt", "fetch", "extract", "transform", "review",
                  "pages.update", "blocks.list", "blocks.delete", "blocks.append" } :
       CallsOf(1, { op }) # << >>

\* the existence lookup of position j failed
FindFailed(j) ==
  ghost[j].calls # << >> /\ ghost[j].calls[1] = Call("find", FALSE, << >>)

\* C36: a store-side error during the existence lookup is not swallowed and
\* not taken for "not found": findRecipeByUrl rethrows it, an API error
\* wrapped with the prefix "Failed to search for recipe", and executeChop
\* records the URL as failed without fetching the page and without any create
\* or update call for it.
C36_LookupErrorRethrown ==
  \A j \in Positions :
    FindFailed(j) =>
      /\ ghost[j].calls = << Call("find", FALSE, << >>) >>
      /\ ~ghost[j].fetched /\ ~ghost[j].wrote
      /\ existingId[j] = Null
      /\ pc[j] = "done"
      /\ SettledIn(j, "failed")
      /\ \E e \in StoreErrors :
           /\ CodeOf(e) = ghost[j].firstError.code
           /\ thrown[j] = IF "code" \in DOMAIN e /\ "status" \in DOMAIN e
                          THEN [message |-> "Failed to search for recipe: " \o e.message]
                          ELSE e
           /\ \A n \in EntriesOf(j) : results[n.list][n.n].error = thrown[j].message

\* the lookup of the first URL failed with a conflict, an API error, while the
\* store already held a page for that URL
C36_Witness ==
  /\ FindFailed(1)
  /\ ghost[1].firstError.code = "conflict_error"
  /\ thrown[1].message = "Failed to search for recipe: " \o ConflictError.message
  /\ store = { ExistingPage }
  /\ main = "report"

\* C37: createRecipe and updateRecipe build the same block sequence for the
\* same recipe: an "Ingredients" heading, one bullet per ingredient in
\* order, an "Instructions" heading, one numbered item per instruction in
\* order, a "Notes" heading and paragraph only when notes is non-empty, a
\* description paragraph only when description is non-empty; its length is
\* 2 + |ingredients| + |instructions| + (2 if notes) + (1 if description).
C37_SameBody ==
  pc[1] = "built" =>
    LET created == output[1]
        updated == output[2]
        ing == input["ingredients"].v
        ins == input["instructions"].v
        notes == "notes" \in DOMAIN input /\ input["notes"] \notin { Null, Str("") }
        description == "description" \in DOMAIN input
                         /\ input["description"] \notin { Null, Str("") }
        base == 2 + Len(ing) + Len(ins)
    IN /\ updated = created
       /\ Len(created) = base + (IF notes THEN 2 ELSE 0) + (IF description THEN 1 ELSE 0)
       /\ created[1] = [type |-> "heading_2", text |-> Str("Ingredients")]
       /\ \A n \in 1..Len(ing) :
            created[1 + n] = [type |-> "bulleted_list_item", text |-> ing[n]]
       /\ created[2 + Len(ing)] = [type |-> "heading_2", text |-> Str("Instructions")]
       /\ \A n \in 1..Len(ins) :
            created[2 + Len(ing) + n] =
              [type |-> "numbered_list_item", text |-> ins[n].v["text"]]
       /\ notes =>
            /\ created[base + 1] = [type |-> "heading_2", text |-> Str("Notes")]
            /\ created[base + 2] = [type |-> "paragraph", text |-> input["notes"]]
       /\ description =>
            created[Len(created)] = [type |-> "paragraph", text |-> input["description"]]

\* both bodies built for a recipe of two ingredients, two steps, notes and a
\* description: nine blocks, the same in both
C37_Witness ==
  /\ pc[1] = "built"
  /\ Len(input["ingredients"].v) = 2
  /\ Len(input["instructions"].v) = 2
  /\ Get(input, "notes") = Str("Serve hot")
  /\ Get(input, "description") = Str("A soup")
  /\ Len(output[1]) = 9
  /\ output[2] = output[1]

\* how many calls of position j to `op` returned
Returned(j, op) == Len(SelectSeq(ghost[j].calls, LAMBDA c : c.op = op /\ c.ok))

\* position j succeeded with a store write
Saved(j) == pc[j] = "done" /\ SettledIn(j, "successful") /\ ~validateOnly

\* C38: the store write of a URL follows its existence check.  When the check
\* found an id (and the overwrite was accepted) one updateRecipe is issued on
\* that id and no create, and the succeeded entry carries that id; when the
\* check found nothing one createRecipe is issued and no update, and the
\* succeeded entry carries the id of the new page.
C38_WriteFollowsCheck ==
  \A j \in Positions :
    LET creates == CallsOf(j, { "create" })
        updates == CallsOf(j, DOMAIN UpdateRank)
    IN /\ Len(creates) <= 1
       /\ Returned(j, "pages.update") <= 1 /\ Returned(j, "blocks.append") <= 1
       /\ creates # << >> => existingId[j] = Null /\ updates = << >>
       /\ updates # << >> =>
            Truthy(existingId[j]) /\ ghost[j].prompted = "accepted" /\ creates = << >>
       /\ Saved(j) =>
            \A e \in EntriesOf(j) :
              IF Truthy(existingId[j])
              THEN /\ Returned(j, "pages.update") = 1 /\ Returned(j, "blocks.append") = 1
                   /\ results[e.list][e.n].recipeId = existingId[j].v
                   /\ \E p \in store : p.id = existingId[j].v
              ELSE /\ Returned(j, "create") = 1
                   /\ \E p \in store : /\ p.id = results[e.list][e.n].recipeId
                                       /\ p.src = urls[j]

\* a URL whose page was found and whose overwrite was accepted: one property
\* update and one append returned, no create, and the entry carries the id found
C38_Witness ==
  /\ UpdatedOk(1) /\ existingId[1] = Str("page-1")
  /\ ghost[1].prompted = "accepted"
  /\ Returned(1, "pages.update") = 1 /\ Returned(1, "blocks.append") = 1
  /\ CallsOf(1, { "create" }) = << >>
  /\ results["successful"][1].recipeId = "page-1"

\* C39: when the same URL occurs more than once in the list, in one batch or
\* in different batches, at most one page create is issued for it during the
\* run, and the run leaves at most one record for it.
C39_OneCreatePerUrl ==
  \A u \in Urls :
    /\ Cardinality({ j \in Occurrences(u) : Returned(j, "create") > 0 }) <= 1
    /\ main = "report" => Cardinality({ p \in store : p.src = u }) <= 1

\* C40: executeChop terminates for every integer batch size given in its
\* options, positive, zero, negative or not a number: the per-URL pipelines
\* terminating, the batch loop ends after finitely many batches and the run
\* reaches the report of the results.
C40_RunTerminates == <>(main = "report")

====
